---- MODULE Spec2Model ----
(***************************************************************************)
(* Model of the crawl frontier engine of URL_scraper: the four variants    *)
(* Url_finder.py, url_finder2.py (initial scan + controlled_crawl),        *)
(* url_finder3.py (recursive crawl_website) and url_scraper.py             *)
(* (level-by-level crawl_website with a thread pool).                      *)
(*                                                                         *)
(* Python strings are modelled as sequences of one-character strings, so   *)
(* that urlparse, urljoin, substring tests, endswith and the lexicographic *)
(* order used by sorted() are computed, not assumed.                       *)
(***************************************************************************)
EXTENDS Integers, Sequences, FiniteSets, TLC

(***************************************************************************)
(* Strings                                                                 *)
(***************************************************************************)

\* The characters that occur in the modelled URLs, in code point order.
Alphabet ==
    << "#", ".", "/", "3", "4", ":", "?", "@", "D", "F", "H", "L", "M", "P", "T",
       "[", "a", "b", "c", "d", "e", "f", "g", "h", "i", "j", "l", "m", "n", "o", "p",
       "q", "r", "s", "t", "v", "w", "x", "y", "z" >>

\* ord(c): the position in code point order (order preserving).
Ord(c) == CHOOSE i \in 1..Len(Alphabet) : Alphabet[i] = c

\* str.lower() on one character.
LowerChar(c) ==
    CASE c = "D" -> "d" [] c = "F" -> "f" [] c = "H" -> "h" [] c = "L" -> "l"
      [] c = "M" -> "m" [] c = "P" -> "p" [] c = "T" -> "t" [] OTHER -> c

\* str.lower()
Lower(s) == [i \in 1..Len(s) |-> LowerChar(s[i])]

\* s[i:] with a 1-based start.
From(s, i) == SubSeq(s, i, Len(s))

\* s.startswith(p)
StartsWith(s, p) == Len(p) <= Len(s) /\ SubSeq(s, 1, Len(p)) = p

\* s.endswith(p)
EndsWith(s, p) == Len(p) <= Len(s) /\ SubSeq(s, Len(s) - Len(p) + 1, Len(s)) = p

\* p in s (substring test)
Contains(s, p) ==
    \E i \in 1..(Len(s) - Len(p) + 1) : SubSeq(s, i, i + Len(p) - 1) = p

\* s.find(c) for a set of characters: the first index holding one of them,
\* Len(s) + 1 when there is none.
FindAny(s, cs) ==
    IF \E i \in 1..Len(s) : s[i] \in cs
    THEN CHOOSE i \in 1..Len(s) : s[i] \in cs /\ \A j \in 1..(i - 1) : s[j] \notin cs
    ELSE Len(s) + 1

\* s.rstrip(c)
RECURSIVE RStrip(_, _)
RStrip(s, c) ==
    IF s # << >> /\ s[Len(s)] = c THEN RStrip(SubSeq(s, 1, Len(s) - 1), c) ELSE s

\* s.lstrip(c)
RECURSIVE LStrip(_, _)
LStrip(s, c) == IF s # << >> /\ s[1] = c THEN LStrip(Tail(s), c) ELSE s

\* s.split(c): the list of pieces, empty pieces included.
RECURSIVE Split(_, _)
Split(s, c) ==
    LET i == FindAny(s, {c})
    IN  IF i > Len(s) THEN << s >>
        ELSE << SubSeq(s, 1, i - 1) >> \o Split(From(s, i + 1), c)

\* c.join(parts)
RECURSIVE Join(_, _)
Join(parts, c) ==
    IF parts = << >> THEN << >>
    ELSE IF Len(parts) = 1 THEN parts[1]
    ELSE parts[1] \o << c >> \o Join(Tail(parts), c)

\* [p for p in parts if p]
RECURSIVE NonEmpty(_)
NonEmpty(parts) ==
    IF parts = << >> THEN << >>
    ELSE IF parts[1] = << >> THEN NonEmpty(Tail(parts))
    ELSE << parts[1] >> \o NonEmpty(Tail(parts))

\* a < b for Python strings: code point order, a proper prefix is smaller.
RECURSIVE StrLess(_, _)
StrLess(a, b) ==
    IF b = << >> THEN FALSE
    ELSE IF a = << >> THEN TRUE
    ELSE IF a[1] # b[1] THEN Ord(a[1]) < Ord(b[1])
    ELSE StrLess(Tail(a), Tail(b))

\* a <= b
StrLeq(a, b) == a = b \/ StrLess(a, b)

\* sorted(S): the ascending sequence of the strings of the set S.
RECURSIVE Sorted(_)
Sorted(S) ==
    IF S = {} THEN << >>
    ELSE LET m == CHOOSE x \in S : \A y \in S : StrLeq(x, y)
         IN  << m >> \o Sorted(S \ {m})

\* reversed(seq)
Reversed(seq) == [i \in 1..Len(seq) |-> seq[Len(seq) + 1 - i]]

\* The elements of a sequence.
Range(seq) == {seq[i] : i \in 1..Len(seq)}

(***************************************************************************)
(* urllib.parse (standard library, as called by the source)                *)
(***************************************************************************)

Letters ==
    { "D", "F", "H", "L", "M", "P", "T", "a", "b", "c", "d", "e", "f", "g", "h",
      "i", "j", "l", "m", "n", "o", "p", "q", "r", "s", "t", "v", "w", "x", "y", "z" }

\* urllib.parse.scheme_chars, restricted to the alphabet.
SchemeChars == Letters \cup { "3", "4", "." }

HTTP == << "h", "t", "t", "p" >>
HTTPS == << "h", "t", "t", "p", "s" >>

\* urllib.parse.uses_relative and uses_netloc, restricted to the schemes modelled.
UsesRelative == { << >>, HTTP, HTTPS }
UsesNetloc == { << >>, HTTP, HTTPS }

\* urlsplit, last step: the query is cut at the first '?'.
ParseQuery(scheme, netloc, rest, fragment, q) ==
    [scheme |-> scheme, netloc |-> netloc, path |-> SubSeq(rest, 1, q - 1),
     query |-> From(rest, q + 1), fragment |-> fragment]

\* urlsplit: the fragment is cut at the first '#' (position h).
ParseFragment(scheme, netloc, rest, h) ==
    ParseQuery(scheme, netloc, SubSeq(rest, 1, h - 1), From(rest, h + 1),
               FindAny(SubSeq(rest, 1, h - 1), {"?"}))

\* _splitnetloc: the netloc ends at position d, the first of '/', '?', '#'.
ParseNetloc(scheme, rest, d) ==
    ParseFragment(scheme, SubSeq(rest, 1, d - 1), From(rest, d),
                  FindAny(From(rest, d), {"#"}))

\* urlsplit after the scheme: a netloc follows '//'.
ParseRest(scheme, rest) ==
    IF StartsWith(rest, << "/", "/" >>)
    THEN ParseNetloc(scheme, From(rest, 3), FindAny(From(rest, 3), {"/", "?", "#"}))
    ELSE ParseFragment(scheme, << >>, rest, FindAny(rest, {"#"}))

\* urlsplit: the text before the first ':' (position i) is a scheme if it
\* starts with a letter and holds scheme characters only.
ParseScheme(url, default, i) ==
    IF /\ i <= Len(url)
       /\ i > 1
       /\ url[1] \in Letters
       /\ \A j \in 1..(i - 1) : url[j] \in SchemeChars
    THEN ParseRest(Lower(SubSeq(url, 1, i - 1)), From(url, i + 1))
    ELSE ParseRest(default, url)

\* urlparse(url, scheme=default): the five components used by the source.
UrlParseD(url, default) == ParseScheme(url, default, FindAny(url, {":"}))

\* urlparse(url)
UrlParse(url) == UrlParseD(url, << >>)

\* urlunparse: '//' + netloc + path, the path made absolute.
UnparseNetloc(netloc, path) ==
    << "/", "/" >> \o netloc
        \o (IF path # << >> /\ path[1] # "/" THEN << "/" >> \o path ELSE path)

\* urlunparse: the scheme, the query and the fragment are attached.
UnparseRest(scheme, url, query, fragment) ==
    (IF scheme # << >> THEN scheme \o << ":" >> ELSE << >>) \o url
        \o (IF query # << >> THEN << "?" >> \o query ELSE << >>)
        \o (IF fragment # << >> THEN << "#" >> \o fragment ELSE << >>)

\* urlunparse(parts)
UrlUnparse(p) ==
    UnparseRest(p.scheme,
                IF p.netloc # << >>
                   \/ (p.scheme # << >> /\ p.scheme \in UsesNetloc
                         /\ ~StartsWith(p.path, << "/", "/" >>))
                THEN UnparseNetloc(p.netloc, p.path)
                ELSE p.path,
                p.query, p.fragment)

\* The dot-segment loop of urljoin: '..' pops, '.' is skipped.
RECURSIVE ResolveSegments(_, _)
ResolveSegments(segs, acc) ==
    IF segs = << >> THEN acc
    ELSE IF segs[1] = << ".", "." >>
         THEN ResolveSegments(Tail(segs),
                 IF acc # << >> THEN SubSeq(acc, 1, Len(acc) - 1) ELSE acc)
    ELSE IF segs[1] = << "." >> THEN ResolveSegments(Tail(segs), acc)
    ELSE ResolveSegments(Tail(segs), Append(acc, segs[1]))

\* segments[1:-1] = filter(None, segments[1:-1])
FilterMiddle(segs) ==
    IF Len(segs) <= 2 THEN segs
    ELSE << segs[1] >> \o NonEmpty(SubSeq(segs, 2, Len(segs) - 1)) \o << segs[Len(segs)] >>

\* base_parts of urljoin: the base path without its last, non-directory item.
BaseParts(parts) ==
    IF parts[Len(parts)] # << >> THEN SubSeq(parts, 1, Len(parts) - 1) ELSE parts

\* '/'.join(resolved_path) or '/', with the trailing '' for a final dot segment.
ResolvedPath(segs, resolved) ==
    IF Join(IF segs[Len(segs)] \in { << "." >>, << ".", "." >> }
            THEN Append(resolved, << >>) ELSE resolved, "/") = << >>
    THEN << "/" >>
    ELSE Join(IF segs[Len(segs)] \in { << "." >>, << ".", "." >> }
              THEN Append(resolved, << >>) ELSE resolved, "/")

\* The path of urljoin for the segments of base and reference.
ResolveAll(segs) == ResolvedPath(segs, ResolveSegments(segs, << >>))

\* The path of urljoin for a non-empty reference path.
JoinPath(bpath, path) ==
    ResolveAll(IF path[1] = "/" THEN Split(path, "/")
               ELSE FilterMiddle(BaseParts(Split(bpath, "/")) \o Split(path, "/")))

\* urljoin after both arguments are parsed (b the base, u the reference).
JoinParsed(url, b, u) ==
    IF u.scheme # b.scheme \/ u.scheme \notin UsesRelative THEN url
    ELSE IF u.scheme \in UsesNetloc /\ u.netloc # << >> THEN UrlUnparse(u)
    ELSE IF u.path = << >>
    THEN UrlUnparse([scheme |-> u.scheme,
                     netloc |-> IF u.scheme \in UsesNetloc THEN b.netloc ELSE u.netloc,
                     path |-> b.path,
                     query |-> IF u.query = << >> THEN b.query ELSE u.query,
                     fragment |-> u.fragment])
    ELSE UrlUnparse([scheme |-> u.scheme,
                     netloc |-> IF u.scheme \in UsesNetloc THEN b.netloc ELSE u.netloc,
                     path |-> JoinPath(b.path, u.path),
                     query |-> u.query, fragment |-> u.fragment])

\* urljoin with the base parsed.
JoinBase(url, b) == JoinParsed(url, b, UrlParseD(url, b.scheme))

\* urljoin(base, url)
UrlJoin(base, url) ==
    IF base = << >> THEN url
    ELSE IF url = << >> THEN base
    ELSE JoinBase(url, UrlParse(base))

\* urlsplit raises ValueError("Invalid IPv6 URL") on a netloc with one
\* square bracket and not the other (the modelled hrefs never hold both).
InvalidIPv6(netloc) ==
    ("[" \in Range(netloc)) # ("]" \in Range(netloc))

\* urlparse(url) raises.
UrlParseRaises(url) == InvalidIPv6(UrlParse(url).netloc)

\* urljoin(base, url) raises: both arguments are parsed, the url with the
\* scheme of the base as its default.
UrlJoinRaises(base, url) ==
    /\ base # << >>
    /\ url # << >>
    /\ \/ InvalidIPv6(UrlParse(base).netloc)
       \/ InvalidIPv6(UrlParseD(url, UrlParse(base).scheme).netloc)

\* s.replace(old, new)
RECURSIVE Replace(_, _, _)
Replace(s, old, new) ==
    IF s = << >> THEN << >>
    ELSE IF StartsWith(s, old) THEN new \o Replace(From(s, Len(old) + 1), old, new)
    ELSE << s[1] >> \o Replace(Tail(s), old, new)

(***************************************************************************)
(* The analyzers: construction and the pure helpers                        *)
(***************************************************************************)

\* The four source variants.
Finder == "Url_finder"
Finder2 == "url_finder2"
Finder3 == "url_finder3"
Scraper == "url_scraper"
Variants == { Finder, Finder2, Finder3, Scraper }

\* The URL given to the constructor (main() has already made sure that it
\* starts with http:// or https://).
SeedInput == << "h", "t", "t", "p", ":", "/", "/", "a", ".", "c", "o", "/" >>

\* self.url = url.rstrip('/')
SeedUrl == RStrip(SeedInput, "/")

\* extract_domain(url)
extract_domain(v, url) ==
    IF v = Scraper
    THEN Replace(UrlParse(url).netloc, << "w", "w", "w", "." >>, << >>)
    ELSE UrlParse(url).netloc

\* The last two dot-separated labels of a host (the whole host if fewer).
LastTwoLabels(host) ==
    LET parts == Split(host, ".")
    IN  IF Len(parts) >= 2 THEN Join(SubSeq(parts, Len(parts) - 1, Len(parts)), ".")
        ELSE host

\* extract_base_domain(url) / get_base_domain(self.domain)
extract_base_domain(v, url) ==
    IF v = Scraper THEN LastTwoLabels(extract_domain(v, url))
    ELSE LastTwoLabels(UrlParse(url).netloc)

\* self.domain and self.base_domain of the analyzer of variant v.
Domain(v) == extract_domain(v, SeedInput)
BaseDomain(v) == extract_base_domain(v, SeedInput)

\* is_valid_url(url)
is_valid_url(url) == UrlParse(url).netloc # << >> /\ UrlParse(url).scheme # << >>

\* is_same_domain(url) of Url_finder.py, url_finder2.py and url_finder3.py
is_same_domain(v, url) ==
    LET url_domain == UrlParse(url).netloc
    IN  Contains(url_domain, BaseDomain(v)) \/ Contains(Domain(v), url_domain)

\* skip_extensions of should_crawl_url
SkipExtensions ==
    { << ".", "p", "d", "f" >>, << ".", "j", "p", "g" >>, << ".", "j", "p", "e", "g" >>,
      << ".", "p", "n", "g" >>, << ".", "g", "i", "f" >>, << ".", "c", "s", "s" >>,
      << ".", "j", "s" >>, << ".", "x", "m", "l" >>, << ".", "z", "i", "p" >>,
      << ".", "t", "a", "r" >>, << ".", "g", "z" >>, << ".", "m", "p", "4" >>,
      << ".", "m", "p", "3" >>, << ".", "a", "v", "i" >> }

\* should_crawl_url(url) of url_scraper.py
should_crawl_url(url) ==
    /\ is_valid_url(url)
    /\ ~\E ext \in SkipExtensions : EndsWith(Lower(url), ext)
    /\ Contains(UrlParse(url).netloc, BaseDomain(Scraper))

\* The page extensions of classify_url.
PageExtensions(v) ==
    LET common == { << ".", "h", "t", "m", "l" >>, << ".", "h", "t", "m" >>,
                    << ".", "p", "h", "p" >>, << ".", "a", "s", "p" >>,
                    << ".", "j", "s", "p" >>, << ".", "p", "y" >> }
    IN  IF v = Finder2
        THEN common \cup { << ".", "p", "d", "f" >>, << ".", "d", "o", "c" >> }
        ELSE common

\* classify_url(url): the label returned and what it adds to the result sets.
classify_url(v, url) ==
    LET parsed == UrlParse(url)
        domain == parsed.netloc
        path == RStrip(parsed.path, "/")
        path_parts == NonEmpty(Split(path, "/"))
        none == [label |-> "page", subdomains |-> {}, subdirectories |-> {}, pages |-> {}]
    IN  IF domain # Domain(v) /\ Contains(domain, BaseDomain(v))
        THEN [none EXCEPT !.label = "subdomain", !.subdomains = {domain}]
        ELSE IF path # << >> /\ path_parts # << >>
        THEN IF \E ext \in PageExtensions(v) : EndsWith(Lower(path), ext)
             THEN [none EXCEPT !.pages = {url},
                      !.subdirectories =
                          IF Len(path_parts) > 1
                          THEN {Join(SubSeq(path_parts, 1, Len(path_parts) - 1), "/")}
                          ELSE {}]
             ELSE [none EXCEPT !.label = "subdirectory",
                      !.subdirectories = {LStrip(path, "/")}]
        ELSE none

\* The page extensions of the quick classification of show_initial_urls_only.
QuickPageExtensions ==
    { << ".", "h", "t", "m", "l" >>, << ".", "h", "t", "m" >>, << ".", "p", "h", "p" >>,
      << ".", "a", "s", "p" >>, << ".", "j", "s", "p" >>, << ".", "p", "y" >> }

\* The body of the loop of show_initial_urls_only (url_finder2.py) for one
\* URL: the category it falls in ("none" when no branch is taken) and what is
\* added to temp_subdomains, temp_subdirectories and temp_pages.
quick_classification(url) ==
    LET parsed == UrlParse(url)
        domain == parsed.netloc
        path == RStrip(parsed.path, "/")
        none == [label |-> "none", subdomains |-> {}, subdirectories |-> {}, pages |-> {}]
    IN  IF domain # Domain(Finder2) /\ Contains(domain, BaseDomain(Finder2))
        THEN [none EXCEPT !.label = "subdomain", !.subdomains = {domain}]
        ELSE IF path # << >>
        THEN IF \E ext \in QuickPageExtensions : EndsWith(Lower(path), ext)
             THEN [none EXCEPT !.label = "page", !.pages = {url}]
             ELSE [none EXCEPT !.label = "subdirectory",
                      !.subdirectories = {LStrip(path, "/")}]
        ELSE none

(***************************************************************************)
(* Pages and link extraction                                               *)
(***************************************************************************)

\* A page without a <meta http-equiv="refresh"> tag.
NoMeta == << "none" >>

\* The clean form of extract_links_from_page: scheme://netloc + path.
CleanUrl(full_url) ==
    LET parsed == UrlParse(full_url)
    IN  parsed.scheme \o << ":", "/", "/" >> \o parsed.netloc \o parsed.path

\* One pass of the first loop of extract_links_from_page raises: urljoin
\* does, or urlparse of the resolved URL does.
HrefRaises(v, url, href) ==
    /\ href # << >>
    /\ \/ UrlJoinRaises(url, href)
       \/ /\ is_same_domain(v, UrlJoin(url, href))
          /\ UrlParseRaises(UrlJoin(url, href))

\* The position, in document order, of the first tag whose pass raises;
\* Len(hrefs) + 1 when the loop runs to its end.
FirstRaise(v, url, hrefs) ==
    IF \E i \in 1..Len(hrefs) : HrefRaises(v, url, hrefs[i])
    THEN CHOOSE i \in 1..Len(hrefs) :
             /\ HrefRaises(v, url, hrefs[i])
             /\ \A j \in 1..(i - 1) : ~HrefRaises(v, url, hrefs[j])
    ELSE Len(hrefs) + 1

\* The first loop is left by an exception.
TagsRaise(v, url, content) ==
    FirstRaise(v, url, content.hrefs) <= Len(content.hrefs)

\* The first loop of extract_links_from_page(url, html_content), without
\* the test on self.visited_urls that url_finder3 adds: the cleaned targets
\* of the anchor and link tags of the page, in document order up to the
\* first tag whose pass raises (links is created before the try block, so
\* what was added before the exception stays in it).
TagLinks(v, url, content) ==
    { c \in { CleanUrl(UrlJoin(url, content.hrefs[i])) :
                i \in { j \in 1..(FirstRaise(v, url, content.hrefs) - 1) :
                          /\ content.hrefs[j] # << >>
                          /\ is_same_domain(v, UrlJoin(url, content.hrefs[j])) } } :
        c # url }

\* The meta refresh part of extract_links_from_page raises: it is reached,
\* and urljoin of its target does.
MetaRaises(v, url, content) ==
    /\ ~TagsRaise(v, url, content)
    /\ content.meta # NoMeta
    /\ UrlJoinRaises(url, content.meta)

\* The meta refresh part of extract_links_from_page; it is skipped when
\* the first loop raised, and adds nothing when it raises itself.
MetaLinks(v, url, content) ==
    IF /\ ~TagsRaise(v, url, content)
       /\ content.meta # NoMeta
       /\ ~UrlJoinRaises(url, content.meta)
       /\ is_same_domain(v, UrlJoin(url, content.meta))
    THEN { UrlJoin(url, content.meta) }
    ELSE {}

\* The except clause of extract_links_from_page is entered.
ExtractRaises(v, url, content) ==
    TagsRaise(v, url, content) \/ MetaRaises(v, url, content)

\* The loop of crawl_single_page(url) raises at some anchor.
PageRaises(url, content) ==
    \E i \in 1..Len(content.hrefs) : UrlJoinRaises(url, content.hrefs[i])

\* The links crawl_single_page(url) adds to self.all_internal_links on a
\* page fetched with status 200: the targets of its anchor tags that
\* should_crawl_url accepts, up to the first anchor whose pass raises.
PageLinksSeen(url, content) ==
    { full_url \in { UrlJoin(url, content.hrefs[i]) :
                       i \in { j \in 1..Len(content.hrefs) :
                                 \A k \in 1..j : ~UrlJoinRaises(url, content.hrefs[k]) } } :
        should_crawl_url(full_url) }

\* crawl_single_page(url) on a page fetched with status 200: the list it
\* returns, [] when the loop raised.
PageLinks(url, content) ==
    IF PageRaises(url, content) THEN {} ELSE PageLinksSeen(url, content)

(***************************************************************************)
(* The modelled web                                                        *)
(***************************************************************************)

\* Bounds of the model.
MaxPages == 3
MaxDepth == 2

\* max_depth=3, the constructor's default (the finder variants never read it).
DefaultMaxDepth == 3

\* The hrefs that the pages of the modelled site carry.
HrefDir == << "/", "b" >>
HrefPage == << "/", "d", "/", "p", ".", "h", "t", "m", "l" >>
HrefSub == << "h", "t", "t", "p", ":", "/", "/", "s", ".", "a", ".", "c", "o", "/" >>
HrefLookalike == << "h", "t", "t", "p", ":", "/", "/", "x", "a", ".", "c", "o", "/" >>
HrefForeign == << "h", "t", "t", "p", ":", "/", "/", "f", ".", "o", "r", "g", "/" >>
HrefQuery == << "/", "b", "?", "q" >>
Hrefs == { HrefDir, HrefPage, HrefSub, HrefLookalike, HrefForeign, HrefQuery }

\* The markup a successful fetch may return, each page with the hrefs of its
\* anchor and link tags in document order: a page without links, a page
\* linking into the site, a page linking to a subdomain and to a foreign
\* site, a page linking to a host that only contains the base domain, and a
\* page that names one location with and without a query string, in two
\* anchors and in a meta refresh tag.
Contents ==
    { [hrefs |-> << >>, meta |-> NoMeta],
      [hrefs |-> << HrefDir, HrefPage >>, meta |-> NoMeta],
      [hrefs |-> << HrefSub, HrefForeign >>, meta |-> NoMeta],
      [hrefs |-> << HrefLookalike, HrefDir >>, meta |-> NoMeta],
      [hrefs |-> << HrefDir, HrefQuery >>, meta |-> HrefQuery] }

\* get_page_content returns None (exception, status other than 200, empty body).
FetchFailed == [hrefs |-> << >>, meta |-> << "failed" >>]

\* What get_page_content(url) may return.
Responses == Contents \cup { FetchFailed }

\* The candidate labels probed by find_subdomains_dns (a sample of common_subdomains).
CommonSubdomains == { << "w", "w", "w" >> }

\* The URLs classify_url is applied to on its own: pages with a lower-case,
\* an upper-case and a document extension, directories, the bare seed, and
\* URLs of a subdomain.
ClassifyInputs ==
    { SeedUrl \o path : path \in
        { << >>,
          << "/", "b" >>,
          << "/", "p", ".", "h", "t", "m", "l" >>,
          << "/", "d", "/", "p", ".", "h", "t", "m", "l" >>,
          << "/", "d", "/", "P", ".", "H", "T", "M" >>,
          << "/", "d", "/", "m", ".", "p", "d", "f" >>,
          << "/", "d", "/", "b", "/", "p", ".", "p", "h", "p" >> } }
      \cup { HrefSub, HrefSub \o << "d", "/", "p", ".", "h", "t", "m", "l" >> }

\* The hrefs without a host that extract_links_from_page is applied to on
\* its own: addresses that are no locations, and a bare fragment.
HrefMailto == << "m", "a", "i", "l", "t", "o", ":", "x" >>
HrefScript == << "j", "a", "v", "a", "s", "c", "r", "i", "p", "t", ":", "v" >>
HrefTel == << "t", "e", "l", ":", "3" >>
HrefFragment == << "#", "t" >>

\* An href with a query string and a fragment: '/d?q#t'.
HrefQueryFragment == << "/", "d", "?", "q", "#", "t" >>

\* An href without a host whose address holds a square bracket: 'x:['.
HrefSchemeBracket == << "x", ":", "[" >>

\* An href that urljoin cannot resolve: '//[x', a host with an opening
\* square bracket only.
HrefBracket == << "/", "/", "[", "x" >>

\* The pages extract_links_from_page is applied to on its own: the pages of
\* the site, pages with hrefs that have no host, pages whose meta refresh
\* tag names a directory or an address, and pages with an href that cannot
\* be resolved, between two links, before a link and a meta refresh tag,
\* and in the meta refresh tag, a page whose link carries a query string
\* and a fragment, and a page with a hostless href that holds a bracket.
ExtractContents ==
    Contents \cup
    { [hrefs |-> << HrefMailto, HrefDir >>, meta |-> NoMeta],
      [hrefs |-> << HrefScript >>, meta |-> NoMeta],
      [hrefs |-> << HrefTel, HrefFragment >>, meta |-> NoMeta],
      [hrefs |-> << HrefFragment, HrefPage >>, meta |-> HrefDir],
      [hrefs |-> << >>, meta |-> HrefMailto],
      [hrefs |-> << HrefDir, HrefBracket, HrefPage >>, meta |-> NoMeta],
      [hrefs |-> << HrefBracket, HrefPage >>, meta |-> HrefDir],
      [hrefs |-> << HrefPage >>, meta |-> HrefBracket],
      [hrefs |-> << HrefQueryFragment, HrefSub >>, meta |-> NoMeta],
      [hrefs |-> << HrefSchemeBracket, HrefDir >>, meta |-> NoMeta] }

\* The base URLs of those calls.
ExtractUrls ==
    { SeedUrl, SeedUrl \o HrefDir, SeedUrl \o HrefQuery, SeedUrl \o HrefPage, HrefSub }

\* One round of link following from a set of URLs, with no filter applied.
Follow(urls) ==
    urls \cup { UrlJoin(u, h) : u \in urls, h \in Hrefs }
         \cup { CleanUrl(UrlJoin(u, h)) : u \in urls, h \in Hrefs }

\* Every URL string the analyzers can meet on the modelled site.
RECURSIVE Closure(_)
Closure(urls) == IF Follow(urls) = urls THEN urls ELSE Closure(Follow(urls))
AllUrls == Closure({ SeedUrl })

\* The pure helpers above, tabulated over the URLs and pages of the model
\* (each entry is the helper's value; the tables only save recomputation).
TagLinksOf ==
    [v \in { Finder, Finder2, Finder3 }, url \in AllUrls \cup ExtractUrls,
     content \in Contents \cup ExtractContents |-> TagLinks(v, url, content)]
MetaLinksOf ==
    [v \in { Finder, Finder2, Finder3 }, url \in AllUrls \cup ExtractUrls,
     content \in Contents \cup ExtractContents |-> MetaLinks(v, url, content)]
PageLinksOf == [url \in AllUrls, content \in Contents |-> PageLinks(url, content)]
PageLinksSeenOf ==
    [url \in AllUrls, content \in Contents |-> PageLinksSeen(url, content)]
QuickClassOf == [url \in AllUrls |-> quick_classification(url)]
ClassOf ==
    [v \in { Finder, Finder2, Finder3 }, url \in AllUrls \cup ClassifyInputs |->
        classify_url(v, url)]
ShouldCrawl == [url \in AllUrls |-> should_crawl_url(url)]
Less == [a \in AllUrls, b \in AllUrls |-> StrLess(a, b)]

\* extract_links_from_page(url, html_content); visited is self.visited_urls,
\* which url_finder3 reads in the first loop.  On None the parser raises, the
\* except clause catches it and the empty set is returned; an exception
\* raised later is caught as well, and the links added so far are returned.
extract_links_from_page(v, url, content, visited) ==
    IF content = FetchFailed THEN {}
    ELSE { c \in TagLinksOf[v, url, content] : v = Finder3 => c \notin visited }
             \cup MetaLinksOf[v, url, content]

\* crawl_single_page(url): the list returned ([] unless the status is 200).
crawl_single_page(url, content) ==
    IF content = FetchFailed THEN {} ELSE PageLinksOf[url, content]

\* crawl_single_page(url): what it adds to self.all_internal_links.
all_internal_links_added(url, content) ==
    IF content = FetchFailed THEN {} ELSE PageLinksSeenOf[url, content]

\* sorted(S) for a set of URLs of the site.
RECURSIVE SortedUrls(_)
SortedUrls(S) ==
    IF S = {} THEN << >>
    ELSE LET m == CHOOSE x \in S : \A y \in S : x = y \/ Less[x, y]
         IN  << m >> \o SortedUrls(S \ {m})

(***************************************************************************)
(* State                                                                   *)
(***************************************************************************)

VARIABLES
    variant,                \* which source file runs
    max_pages, max_depth,   \* the constructor's arguments
    pc,                     \* the position of the session
    initial_urls_found,     \* self.initial_urls_found / self.initial_found_urls
    estimated_total,        \* self.estimated_total
    main_page_links,        \* main_page_links of initial_scan
    samples_left,           \* the sample links not yet scanned
    total_additional_links, \* total_additional_links / total_new_links
    successful_samples,     \* successful_samples
    found_subdomains, found_subdirectories, found_pages,
    visited_urls,           \* self.visited_urls / self.visited_pages
    crawl_count,            \* self.crawl_count / crawl_count
    urls_to_crawl,          \* urls_to_crawl / self.crawl_queue (a deque)
    stack,                  \* the frames of the recursive crawl_website
    depth, current_level, next_level, futures,  \* crawl_website of url_scraper
    all_internal_links,     \* self.all_internal_links
    classified,             \* history: the last classify_url call and its result
    probes,                 \* the futures of check_subdomain, one per candidate
    extracted,              \* history: the last extract_links_from_page call and its result
    fetch_log,              \* history: every page fetch attempt, in order
    last_links,             \* history: the links the last crawled page gave
    inserted_batches,       \* history: the batches of links controlled_crawl put into its queue
    page_links,             \* history: the links each crawled page gave, in the order of the fetches
    first_session,          \* history: an earlier session on the same site, for comparison
    shown                   \* the temp_ sets of show_initial_urls_only

vars ==
    << variant, max_pages, max_depth, pc, initial_urls_found, estimated_total,
       main_page_links, samples_left, total_additional_links, successful_samples,
       found_subdomains, found_subdirectories, found_pages, visited_urls,
       crawl_count, urls_to_crawl, stack, depth, current_level, next_level,
       futures, all_internal_links, classified, probes, extracted, fetch_log, last_links,
       inserted_batches, page_links, first_session, shown >>

scanVars ==
    << initial_urls_found, estimated_total, main_page_links, samples_left,
       total_additional_links, successful_samples >>
resultVars == << found_subdomains, found_subdirectories, found_pages, classified >>
finderVars == << crawl_count, urls_to_crawl >>
recVars == << stack >>
scraperVars == << depth, current_level, next_level, futures, all_internal_links >>
configVars == << variant, max_pages, max_depth >>
historyVars == << fetch_log, last_links, inserted_batches, page_links >>
twinVars == << first_session >>
shownVars == << shown >>
probeVars == << probes >>
extractVars == << extracted >>

\* One entry of the fetch log.
Fetched(phase, url, resp) == [phase |-> phase, url |-> url, ok |-> resp # FetchFailed]

\* The URLs fetched in a phase ("scan" or "crawl"), in order.
PhaseLog(phase) ==
    LET sel == SelectSeq(fetch_log, LAMBDA e : e.phase = phase)
    IN  [i \in 1..Len(sel) |-> sel[i].url]

\* What no call of extract_links_from_page on its own has set yet.
NotExtracted == [url |-> << >>, content |-> FetchFailed, links |-> {}]

\* What the history holds when no earlier session was run.
NoSession ==
    [phase |-> "none", estimated_total |-> 0, subdomains |-> {}, order |-> << >>,
     links |-> << >>, visited |-> {}, found |-> << {}, {}, {} >>]

\* What is there before show_initial_urls_only has run.
NothingShown == [subdomains |-> {}, subdirectories |-> {}, pages |-> {}]

\* What no classify_url call has set yet.
NotClassified == [url |-> << >>, label |-> "none"]

\* The fields every analyzer has right after __init__.
InitFields ==
    /\ initial_urls_found = {}
    /\ estimated_total = 0
    /\ main_page_links = {}
    /\ samples_left = {}
    /\ total_additional_links = 0
    /\ successful_samples = 0
    /\ found_subdomains = {}
    /\ found_subdirectories = {}
    /\ found_pages = {}
    /\ visited_urls = {}
    /\ crawl_count = 0
    /\ urls_to_crawl = << >>
    /\ stack = << >>
    /\ depth = 0
    /\ current_level = {}
    /\ next_level = {}
    /\ futures = << >>
    /\ all_internal_links = {}
    /\ classified = NotClassified
    /\ probes = << >>
    /\ extracted = NotExtracted
    /\ fetch_log = << >>
    /\ last_links = {}
    /\ inserted_batches = << >>
    /\ page_links = << >>
    /\ first_session = NoSession
    /\ shown = NothingShown

\* The analyzer right after __init__, for each variant and each budget (any
\* number of pages the caller passes, 0 included).  controlled_crawl never reads
\* max_depth, so Url_finder.py and url_finder2.py run with the default.
Init ==
    /\ variant \in Variants
    /\ max_pages \in 0..MaxPages
    /\ max_depth \in IF variant \in { Finder, Finder2 } THEN { DefaultMaxDepth }
                     ELSE 0..MaxDepth
    /\ pc = IF variant \in { Finder, Finder2 } THEN "initial_scan"
            ELSE IF variant = Finder3 THEN "dns" ELSE "crawl_start"
    /\ InitFields

(***************************************************************************)
(* Python float (IEEE 754 binary64), as used by the estimate               *)
(***************************************************************************)

\* The significant bits of a float.
Precision == 53

\* The float 0.0; another float is m * 2^e, m a bit string with leading 1,
\* most significant bit first, of at most Precision bits.
Zero == [m |-> << >>, e |-> 0]

\* The binary digits of a natural number, most significant first.
RECURSIVE BitsOf(_)
BitsOf(n) == IF n = 0 THEN << >> ELSE BitsOf(n \div 2) \o << n % 2 >>

\* The natural number written by a bit string.
RECURSIVE ValueOf(_)
ValueOf(bits) ==
    IF bits = << >> THEN 0
    ELSE 2 * ValueOf(SubSeq(bits, 1, Len(bits) - 1)) + bits[Len(bits)]

\* A bit string without its leading zeros.
Normal(bits) ==
    IF \A i \in 1..Len(bits) : bits[i] = 0 THEN << >>
    ELSE SubSeq(bits, CHOOSE i \in 1..Len(bits) :
                          bits[i] = 1 /\ \A j \in 1..(i - 1) : bits[j] = 0,
                Len(bits))

\* bits + 1: the last zero becomes one, the ones after it zero.
Increment(bits) ==
    IF \A i \in 1..Len(bits) : bits[i] = 1
    THEN << 1 >> \o [i \in 1..Len(bits) |-> 0]
    ELSE [i \in 1..Len(bits) |->
             IF \E j \in (i + 1)..Len(bits) : bits[j] = 0 THEN bits[i]
             ELSE 1 - bits[i]]

\* The end of rounding: the kept bits, one more if up, at exponent e.
Rounded(kept, e, up) ==
    IF ~up THEN [m |-> kept, e |-> e]
    ELSE IF Len(Increment(kept)) > Precision
    THEN [m |-> SubSeq(Increment(kept), 1, Precision), e |-> e + 1]
    ELSE [m |-> Increment(kept), e |-> e]

\* Round to nearest, ties to even: the float nearest to bits * 2^e (plus a
\* non-zero part below the last bit when sticky).
RoundNearestEven(bits, e, sticky) ==
    IF Len(bits) <= Precision THEN [m |-> bits, e |-> e]
    ELSE Rounded(SubSeq(bits, 1, Precision), e + Len(bits) - Precision,
                 /\ bits[Precision + 1] = 1
                 /\ \/ sticky
                    \/ bits[Precision] = 1
                    \/ \E i \in (Precision + 2)..Len(bits) : bits[i] = 1)

\* 2^n
RECURSIVE Pow2(_)
Pow2(n) == IF n = 0 THEN 1 ELSE 2 * Pow2(n - 1)

\* The bits of a digit: the arithmetic below works on digits of LimbBits
\* bits, so that every intermediate number stays a small integer.
LimbBits == 11

\* A bit string as digits, least significant digit first.
RECURSIVE LimbsOf(_)
LimbsOf(bits) ==
    IF bits = << >> THEN << >>
    ELSE IF Len(bits) <= LimbBits THEN << ValueOf(bits) >>
    ELSE << ValueOf(SubSeq(bits, Len(bits) - LimbBits + 1, Len(bits))) >>
             \o LimbsOf(SubSeq(bits, 1, Len(bits) - LimbBits))

\* The bits of one digit, LimbBits of them.
LimbDigits(n) ==
    [i \in 1..(LimbBits - Len(BitsOf(n))) |-> 0] \o BitsOf(n)

\* The bit string of digits given least significant first.
RECURSIVE BitsOfLimbs(_)
BitsOfLimbs(limbs) ==
    IF limbs = << >> THEN << >>
    ELSE BitsOfLimbs(Tail(limbs)) \o LimbDigits(limbs[1])

\* The zero bits that rem / s (0 < rem < s) starts with after the point.
RECURSIVE LeadZeros(_, _)
LeadZeros(rem, s) == IF 2 * rem >= s THEN 0 ELSE 1 + LeadZeros(2 * rem, s)

\* Long division: the next n digits of rem / s (rem < s) as bits, and what
\* remains.
RECURSIVE FracBits(_, _, _)
FracBits(rem, s, n) ==
    IF n = 0 THEN [bits |-> << >>, rem |-> rem]
    ELSE LET next == FracBits((rem * Pow2(LimbBits)) % s, s, n - 1)
         IN  [bits |-> LimbDigits((rem * Pow2(LimbBits)) \div s) \o next.bits,
              rem |-> next.rem]

\* The quotient bits of DivideFrom, rounded: lead are the bits of the integer
\* part, z the zero bits skipped after the point.
DivideRound(lead, z, frac) ==
    RoundNearestEven(lead \o frac.bits, 0 - (z + Len(frac.bits)), frac.rem # 0)

\* t / s from the integer part on, to more bits than the precision.
DivideFrom(lead, z, rem, s) ==
    DivideRound(lead, z, FracBits(rem * Pow2(z), s, (Precision + LimbBits) \div LimbBits))

\* t / s for integers t >= 0 and s > 0 (true division, correctly rounded).
FDiv(t, s) ==
    IF t = 0 THEN Zero
    ELSE DivideFrom(BitsOf(t \div s),
                    IF t \div s = 0 THEN LeadZeros(t, s) ELSE 0, t % s, s)

\* The sum of the digit products a[i] * b[k + 1 - i] of column k, from i on.
RECURSIVE Column(_, _, _, _)
Column(a, b, k, i) ==
    IF i > Len(a) THEN 0
    ELSE (IF k + 1 - i \in 1..Len(b) THEN a[i] * b[k + 1 - i] ELSE 0)
             + Column(a, b, k, i + 1)

\* Schoolbook multiplication of digit strings: the digits of a * b from
\* column k on, with the carry of the columns below.
RECURSIVE Columns(_, _, _, _)
Columns(a, b, k, carry) ==
    IF k > Len(a) + Len(b) THEN << >>
    ELSE << (Column(a, b, k, 1) + carry) % Pow2(LimbBits) >>
             \o Columns(a, b, k + 1, (Column(a, b, k, 1) + carry) \div Pow2(LimbBits))

\* The bit string of the product of two bit strings.
ProductBits(x, y) == Normal(BitsOfLimbs(Columns(LimbsOf(x), LimbsOf(y), 1, 0)))

\* x * r for a float x and an integer r >= 0 (r is converted exactly).
FMulInt(x, r) ==
    IF r = 0 \/ x = Zero THEN Zero
    ELSE RoundNearestEven(ProductBits(x.m, BitsOf(r)), x.e, FALSE)

\* x * y for floats.
FMul(x, y) ==
    IF x = Zero \/ y = Zero THEN Zero
    ELSE RoundNearestEven(ProductBits(x.m, y.m), x.e + y.e, FALSE)

\* int(x) for a float x >= 0: the integer part.
FTrunc(x) ==
    IF x = Zero THEN 0
    ELSE IF x.e >= 0 THEN ValueOf(x.m) * Pow2(x.e)
    ELSE ValueOf(SubSeq(x.m, 1, Len(x.m) + x.e))

(***************************************************************************)
(* Url_finder.py and url_finder2.py: initial scan, permission, crawl       *)
(***************************************************************************)

\* min(a, b)
Min(a, b) == IF a <= b THEN a ELSE b

\* The cap on the sample: min(5, ...) in Url_finder.py, min(15, ...) in url_finder2.py.
SampleCap(v) == IF v = Finder2 THEN 15 ELSE 5

\* The literal 0.7: the float nearest to 7/10.
SevenTenths == FDiv(7, 10)

\* int(avg * remaining_pages) in Url_finder.py and
\* int(avg * remaining_pages * 0.7) in url_finder2.py, avg = total / successful.
AdditionalEstimate(damped, total, successful, remaining) ==
    IF damped
    THEN FTrunc(FMul(FMulInt(FDiv(total, successful), remaining), SevenTenths))
    ELSE FTrunc(FMulInt(FDiv(total, successful), remaining))

\* The estimate computed at the end of the initial scan, in float
\* arithmetic; url_finder2 damps by 0.7.
EstimatedTotal(v, found, total, successful, n_main, sample_size) ==
    IF successful > 0
    THEN Cardinality(found)
             + AdditionalEstimate(v = Finder2, total, successful, n_main - sample_size)
    ELSE Cardinality(found)

\* The fault of going on with the scan although the main page was not read.
SeedUnreachableIgnored(resp) == FALSE

\* 'if not html_content' of initial_scan: the main page could not be read.
SeedUnreachable(resp) == resp = FetchFailed

\* initial_scan, up to the first sample: the fetch of the main page.
InitialScan ==
    /\ pc = "initial_scan"
    /\ \E resp \in Responses :
         /\ fetch_log' = Append(fetch_log, Fetched("scan", SeedUrl, resp))
         /\ IF SeedUnreachable(resp)
            THEN /\ pc' = "scan_failed"
                 /\ UNCHANGED scanVars
            ELSE \E links \in { extract_links_from_page(variant, SeedUrl, resp, visited_urls) } :
                   \* list(main_page_links)[:sample_size]: any sample_size of them
                   \E sample \in SUBSET links :
                     /\ Cardinality(sample) = Min(SampleCap(variant), Cardinality(links))
                     /\ main_page_links' = links
                     /\ initial_urls_found' = { SeedUrl } \cup links
                     /\ total_additional_links' = 0
                     /\ successful_samples' = 0
                     /\ samples_left' = sample
                     /\ IF sample = {}
                        THEN /\ estimated_total' =
                                  EstimatedTotal(variant, { SeedUrl } \cup links, 0, 0,
                                                 Cardinality(links), 0)
                             /\ pc' = "scanned"
                        ELSE /\ estimated_total' = estimated_total
                             /\ pc' = "sampling"
    /\ UNCHANGED << configVars, twinVars, shownVars, probeVars, extractVars, resultVars, visited_urls, finderVars, recVars,
                    scraperVars, last_links, inserted_batches, page_links >>

\* One iteration of the sample loop of initial_scan (the estimate follows
\* the last iteration).
SampleScan ==
    /\ pc = "sampling"
    /\ \E link \in samples_left, resp \in Responses :
         \E new_links \in { extract_links_from_page(variant, link, resp, visited_urls)
                                \ initial_urls_found } :
           /\ fetch_log' = Append(fetch_log, Fetched("scan", link, resp))
           /\ initial_urls_found' = initial_urls_found \cup new_links
           /\ total_additional_links' =
                  total_additional_links + (IF resp = FetchFailed THEN 0 ELSE Cardinality(new_links))
           /\ successful_samples' = successful_samples + (IF resp = FetchFailed THEN 0 ELSE 1)
           /\ samples_left' = samples_left \ { link }
           /\ IF samples_left = { link }
              THEN /\ estimated_total' =
                        EstimatedTotal(variant, initial_urls_found', total_additional_links',
                                       successful_samples', Cardinality(main_page_links),
                                       Min(SampleCap(variant), Cardinality(main_page_links)))
                   /\ pc' = "scanned"
              ELSE /\ estimated_total' = estimated_total
                   /\ pc' = "sampling"
    /\ UNCHANGED << configVars, twinVars, shownVars, probeVars, extractVars, main_page_links, resultVars, visited_urls, finderVars,
                    recVars, scraperVars, last_links, inserted_batches, page_links >>

\* analyze_with_initial_scan / analyze_with_preview return after a failed scan.
ScanFailedReturn ==
    /\ pc = "scan_failed"
    /\ pc' = "failed"
    /\ UNCHANGED << configVars, twinVars, shownVars, probeVars, extractVars, scanVars, resultVars, visited_urls, finderVars, recVars,
                    scraperVars, historyVars >>

\* get_user_permission / the menu of analyze_with_preview: go on or stop.
UserDecision ==
    /\ pc = "scanned"
    /\ \E proceed \in BOOLEAN : pc' = IF proceed THEN "dns" ELSE "cancelled"
    /\ UNCHANGED << configVars, twinVars, shownVars, probeVars, extractVars, scanVars, resultVars, visited_urls, finderVars, recVars,
                    scraperVars, historyVars >>

\* Option 2 of the menu of analyze_with_preview: show_initial_urls_only
\* classifies the URLs of the initial scan into its own three sets, prints
\* them, and the analysis returns.
show_initial_urls_only ==
    /\ pc = "scanned"
    /\ variant = Finder2
    /\ shown' =
           [subdomains |-> UNION { QuickClassOf[url].subdomains : url \in initial_urls_found },
            subdirectories |->
                UNION { QuickClassOf[url].subdirectories : url \in initial_urls_found },
            pages |-> UNION { QuickClassOf[url].pages : url \in initial_urls_found }]
    /\ pc' = "shown"
    /\ UNCHANGED << configVars, twinVars, probeVars, extractVars, scanVars, resultVars,
                    visited_urls, finderVars, recVars, scraperVars, historyVars >>

\* find_subdomains_dns: every candidate that resolves and answers is added.
find_subdomains_dns ==
    /\ pc = "dns"
    /\ variant \in { Finder, Finder2, Finder3 }
    /\ \E live \in SUBSET CommonSubdomains :
         found_subdomains' =
             found_subdomains \cup { label \o << "." >> \o BaseDomain(variant) : label \in live }
    /\ pc' = "crawl_start"
    /\ UNCHANGED << configVars, twinVars, shownVars, probeVars, extractVars, scanVars, found_subdirectories, found_pages, classified,
                    visited_urls, finderVars, recVars, scraperVars, historyVars >>

\* controlled_crawl before its loop: the queue, latest first.
ControlledCrawlStart ==
    /\ pc = "crawl_start"
    /\ variant \in { Finder, Finder2 }
    /\ urls_to_crawl' = Reversed(SortedUrls(initial_urls_found))
    /\ crawl_count' = crawl_count
    /\ pc' = "crawl"
    /\ UNCHANGED << configVars, twinVars, shownVars, probeVars, extractVars, scanVars, resultVars, visited_urls, recVars, scraperVars,
                    historyVars >>

\* The fault of a loop that gives up one fetch before the budget is used.
CrawlGuardStopsEarly == urls_to_crawl # << >> /\ crawl_count + 1 < max_pages

\* The fault of a loop condition that forgets the budget.
CrawlGuardIgnoresBudget == urls_to_crawl # << >>

\* The fault of a loop condition that is off by one.
CrawlGuardOffByOne == urls_to_crawl # << >> /\ crawl_count <= max_pages

\* The fault of a loop that also stops at the estimate.
CrawlGuardWithinEstimate ==
    urls_to_crawl # << >> /\ crawl_count < max_pages /\ crawl_count < estimated_total

\* The loop condition of controlled_crawl.
CrawlGuard == urls_to_crawl # << >> /\ crawl_count < max_pages

\* The fault of never testing whether a URL was visited.
AlreadyVisitedIgnored(url) == FALSE

\* 'if current_url in self.visited_urls' / 'if start_url in self.visited_urls'
AlreadyVisited(url) == url \in visited_urls

\* The fault of never recording a URL as visited.
MarkVisitedOmitted(visited, url) == visited

\* self.visited_urls.add(url)
MarkVisited(visited, url) == visited \cup { url }

\* The fault of queueing every extracted link.
FreshLinksUnfiltered(new_links, visited, queue) == new_links

\* The fault of queueing a link that is in the queue already.
FreshLinksQueuedAgain(new_links, visited, queue) == { l \in new_links : l \notin visited }

\* fresh_links: the new links that are neither visited nor queued.
FreshLinks(new_links, visited, queue) ==
    { l \in new_links : l \notin visited /\ l \notin Range(queue) }

\* for link in reversed(sorted(fresh_links)): urls_to_crawl.appendleft(link)
RECURSIVE AppendLeftAll(_, _)
AppendLeftAll(queue, links) ==
    IF links = << >> THEN queue
    ELSE AppendLeftAll(<< links[1] >> \o queue, Tail(links))

\* The fault of inserting one fresh link only and losing the others.
InsertFreshOne(queue, fresh_links) ==
    IF fresh_links = {} THEN queue ELSE << SortedUrls(fresh_links)[1] >> \o queue

\* The fault of also queueing, for each fresh link, a URL guessed from it
\* that no page has named.
InsertFreshAndGuessed(queue, fresh_links) ==
    AppendLeftAll(queue,
        Reversed(SortedUrls(fresh_links \cup { UrlJoin(l, HrefDir) : l \in fresh_links })))

\* The queue after the fresh links of one page are inserted.
InsertFresh(queue, fresh_links) == AppendLeftAll(queue, Reversed(SortedUrls(fresh_links)))

\* The fault of never counting a crawled page.
CrawlCountNever(count, resp) == count

\* The fault of counting only the fetches that gave a page.
CrawlCountSuccessOnly(count, resp) == IF resp = FetchFailed THEN count ELSE count + 1

\* self.crawl_count += 1: it comes before the fetch, so an attempt counts
\* whatever get_page_content returns.
CrawlCountAfter(count, resp) == count + 1

\* classify_url(url) as a statement: the result sets grow, the label is returned.
Classify(url) ==
    /\ found_subdomains' = found_subdomains \cup ClassOf[variant, url].subdomains
    /\ found_subdirectories' = found_subdirectories \cup ClassOf[variant, url].subdirectories
    /\ found_pages' = found_pages \cup ClassOf[variant, url].pages
    /\ classified' = [url |-> url, label |-> ClassOf[variant, url].label]

\* One iteration of the while loop of controlled_crawl.
ControlledCrawlIteration ==
    /\ pc = "crawl"
    /\ variant \in { Finder, Finder2 }
    /\ CrawlGuard
    /\ IF AlreadyVisited(Head(urls_to_crawl))
       THEN /\ urls_to_crawl' = Tail(urls_to_crawl)
            /\ UNCHANGED << crawl_count, visited_urls, resultVars, historyVars >>
       ELSE \E current_url \in { Head(urls_to_crawl) }, resp \in Responses :
              \E new_links \in { extract_links_from_page(variant, current_url, resp,
                                                         MarkVisited(visited_urls, current_url)) } :
                /\ crawl_count' = CrawlCountAfter(crawl_count, resp)
                /\ visited_urls' = MarkVisited(visited_urls, current_url)
                /\ Classify(current_url)
                /\ fetch_log' = Append(fetch_log, Fetched("crawl", current_url, resp))
                /\ last_links' = new_links
                /\ urls_to_crawl' =
                       InsertFresh(Tail(urls_to_crawl),
                                   FreshLinks(new_links, visited_urls', Tail(urls_to_crawl)))
                /\ page_links' = Append(page_links, new_links)
                /\ inserted_batches' =
                       IF FreshLinks(new_links, visited_urls', Tail(urls_to_crawl)) = {}
                       THEN inserted_batches
                       ELSE Append(inserted_batches,
                                   FreshLinks(new_links, visited_urls', Tail(urls_to_crawl)))
    /\ pc' = "crawl"
    /\ UNCHANGED << configVars, twinVars, shownVars, probeVars, extractVars, scanVars, recVars, scraperVars >>

\* controlled_crawl returns when its loop condition fails.
ControlledCrawlEnd ==
    /\ pc = "crawl"
    /\ variant \in { Finder, Finder2 }
    /\ ~CrawlGuard
    /\ pc' = "done"
    /\ UNCHANGED << configVars, twinVars, shownVars, probeVars, extractVars, scanVars, resultVars, visited_urls, finderVars, recVars,
                    scraperVars, historyVars >>

(***************************************************************************)
(* url_finder3.py: the recursive crawl_website                             *)
(***************************************************************************)

\* The fault of a budget test that is off by one.
CallRefusedOffByOne(d) == d > max_depth \/ Cardinality(visited_urls) > max_pages

\* The fault of a depth test that lets one more level through.
CallRefusedTooDeep(d) == d > max_depth + 1 \/ Cardinality(visited_urls) >= max_pages

\* The first test of crawl_website: too deep, or the budget is used up.
CallRefused(d) == d > max_depth \/ Cardinality(visited_urls) >= max_pages

\* The test of the link loop of crawl_website: budget is left for a call.
BudgetLeft == Cardinality(visited_urls) < max_pages

\* crawl_website(start_url, depth) from its entry to the start of its link
\* loop; stk is the stack of the callers.  A call that goes on to its loop
\* pushes a frame holding the links it has still to iterate over.
crawl_website_call(start_url, d, stk) ==
    IF CallRefused(d) \/ AlreadyVisited(start_url)
    THEN /\ stack' = stk
         /\ UNCHANGED << visited_urls, resultVars, historyVars >>
    ELSE \E resp \in Responses :
           /\ visited_urls' = MarkVisited(visited_urls, start_url)
           /\ fetch_log' = Append(fetch_log, Fetched("crawl", start_url, resp))
           /\ last_links' = extract_links_from_page(variant, start_url, resp, visited_urls')
           /\ page_links' = Append(page_links, last_links')
           /\ UNCHANGED inserted_batches
           /\ IF resp = FetchFailed
              THEN /\ stack' = stk
                   /\ UNCHANGED resultVars
              ELSE /\ Classify(start_url)
                   /\ stack' = Append(stk, [url |-> start_url, depth |-> d, links |-> last_links'])

\* analyze_deep calls crawl_website() on the seed at depth 0.
RecursiveCrawlStart ==
    /\ pc = "crawl_start"
    /\ variant = Finder3
    /\ crawl_website_call(SeedUrl, 0, << >>)
    /\ pc' = "crawl"
    /\ UNCHANGED << configVars, twinVars, shownVars, probeVars, extractVars, scanVars, finderVars, scraperVars >>

\* One iteration of 'for link in links' in the innermost active call: the
\* set is iterated in an arbitrary order; the budget is checked, then the
\* recursive call is made, or the loop is left with break.
RecursiveCrawlLoop ==
    /\ pc = "crawl"
    /\ variant = Finder3
    /\ stack # << >>
    /\ stack[Len(stack)].links # {}
    /\ \E link \in stack[Len(stack)].links :
         IF BudgetLeft
         THEN crawl_website_call(link, stack[Len(stack)].depth + 1,
                  [stack EXCEPT ![Len(stack)].links = @ \ { link }])
         ELSE /\ stack' = SubSeq(stack, 1, Len(stack) - 1)
              /\ UNCHANGED << visited_urls, resultVars, historyVars >>
    /\ pc' = "crawl"
    /\ UNCHANGED << configVars, twinVars, shownVars, probeVars, extractVars, scanVars, finderVars, scraperVars >>

\* The innermost call has iterated over all its links and returns.
RecursiveCrawlReturn ==
    /\ pc = "crawl"
    /\ variant = Finder3
    /\ stack # << >>
    /\ stack[Len(stack)].links = {}
    /\ stack' = SubSeq(stack, 1, Len(stack) - 1)
    /\ pc' = "crawl"
    /\ UNCHANGED << configVars, twinVars, shownVars, probeVars, extractVars, scanVars, resultVars, visited_urls, finderVars,
                    scraperVars, historyVars >>

\* The outermost crawl_website has returned to analyze_deep.
RecursiveCrawlEnd ==
    /\ pc = "crawl"
    /\ variant = Finder3
    /\ stack = << >>
    /\ pc' = "done"
    /\ UNCHANGED << configVars, twinVars, shownVars, probeVars, extractVars, scanVars, resultVars, visited_urls, finderVars, recVars,
                    scraperVars, historyVars >>

(***************************************************************************)
(* url_scraper.py: crawl_website, level by level with a thread pool        *)
(***************************************************************************)

\* The fault of a depth test that lets one more level through.
LevelGuardOneMore ==
    current_level # {} /\ depth <= max_depth /\ Cardinality(visited_urls) < max_pages

\* The while condition of crawl_website.
LevelGuard ==
    current_level # {} /\ depth < max_depth /\ Cardinality(visited_urls) < max_pages

\* crawl_website before its loop.
LevelCrawlStart ==
    /\ pc = "crawl_start"
    /\ variant = Scraper
    /\ depth' = 0
    /\ current_level' = { SeedUrl }
    /\ pc' = "level"
    /\ UNCHANGED << configVars, twinVars, shownVars, probeVars, extractVars, scanVars, resultVars, visited_urls, finderVars, recVars,
                    next_level, futures, all_internal_links, historyVars >>

\* The URLs of the current level that are submitted to the executor.
Submitted == { url \in current_level : url \notin visited_urls }

\* The head of one loop iteration: every unvisited URL of the level is submitted.
LevelStart ==
    /\ pc = "level"
    /\ variant = Scraper
    /\ LevelGuard
    /\ next_level' = {}
    /\ futures' = [url \in Submitted |-> [state |-> "submitted", links |-> {}]]
    /\ pc' = "pool"
    /\ UNCHANGED << configVars, twinVars, shownVars, probeVars, extractVars, scanVars, resultVars, visited_urls, finderVars, recVars,
                    depth, current_level, all_internal_links, historyVars >>

\* The fault of a pool thread that marks its URL visited itself.
CrawlSinglePageMarksVisited ==
    /\ pc = "pool"
    /\ \E url \in DOMAIN futures, resp \in Responses :
         /\ futures[url].state = "submitted"
         /\ all_internal_links' = all_internal_links \cup all_internal_links_added(url, resp)
         /\ futures' = [futures EXCEPT ![url] =
                            [state |-> "done", links |-> crawl_single_page(url, resp)]]
         /\ fetch_log' = Append(fetch_log, Fetched("crawl", url, resp))
         /\ last_links' = crawl_single_page(url, resp)
         /\ page_links' = Append(page_links, crawl_single_page(url, resp))
         /\ visited_urls' = MarkVisited(visited_urls, url)
         /\ UNCHANGED inserted_batches
    /\ pc' = "pool"
    /\ UNCHANGED << configVars, twinVars, shownVars, probeVars, extractVars, scanVars, resultVars, finderVars,
                    recVars, depth, current_level, next_level >>

\* A pool thread runs crawl_single_page(url) to its end.
CrawlSinglePage ==
    /\ pc = "pool"
    /\ \E url \in DOMAIN futures, resp \in Responses :
         /\ futures[url].state = "submitted"
         /\ all_internal_links' = all_internal_links \cup all_internal_links_added(url, resp)
         /\ futures' = [futures EXCEPT ![url] =
                            [state |-> "done", links |-> crawl_single_page(url, resp)]]
         /\ fetch_log' = Append(fetch_log, Fetched("crawl", url, resp))
         /\ last_links' = crawl_single_page(url, resp)
         /\ page_links' = Append(page_links, crawl_single_page(url, resp))
         /\ UNCHANGED inserted_batches
    /\ pc' = "pool"
    /\ UNCHANGED << configVars, twinVars, shownVars, probeVars, extractVars, scanVars, resultVars, visited_urls, finderVars, recVars,
                    depth, current_level, next_level >>

\* The coordinating loop takes one completed future from as_completed.
CollectFuture ==
    /\ pc = "pool"
    /\ \E url \in DOMAIN futures :
         /\ futures[url].state = "done"
         /\ next_level' = next_level \cup futures[url].links
         /\ visited_urls' = MarkVisited(visited_urls, url)
         /\ futures' = [futures EXCEPT ![url].state = "collected"]
    /\ pc' = "pool"
    /\ UNCHANGED << configVars, twinVars, shownVars, probeVars, extractVars, scanVars, resultVars, finderVars, recVars, depth,
                    current_level, all_internal_links, historyVars >>

\* The end of one loop iteration: the next level is filtered, depth grows.
LevelEnd ==
    /\ pc = "pool"
    /\ \A url \in DOMAIN futures : futures[url].state = "collected"
    /\ current_level' = { url \in next_level : url \notin visited_urls /\ ShouldCrawl[url] }
    /\ depth' = depth + 1
    /\ pc' = "level"
    /\ UNCHANGED << configVars, twinVars, shownVars, probeVars, extractVars, scanVars, resultVars, visited_urls, finderVars, recVars,
                    next_level, futures, all_internal_links, historyVars >>

\* crawl_website returns when its while condition fails.
LevelCrawlEnd ==
    /\ pc = "level"
    /\ variant = Scraper
    /\ ~LevelGuard
    /\ pc' = "done"
    /\ UNCHANGED << configVars, twinVars, shownVars, probeVars, extractVars, scanVars, resultVars, visited_urls, finderVars, recVars,
                    scraperVars, historyVars >>

(***************************************************************************)
(* The sessions                                                            *)
(***************************************************************************)

Next ==
    \/ InitialScan
    \/ SampleScan
    \/ ScanFailedReturn
    \/ UserDecision
    \/ show_initial_urls_only
    \/ find_subdomains_dns
    \/ ControlledCrawlStart
    \/ ControlledCrawlIteration
    \/ ControlledCrawlEnd
    \/ RecursiveCrawlStart
    \/ RecursiveCrawlLoop
    \/ RecursiveCrawlReturn
    \/ RecursiveCrawlEnd
    \/ LevelCrawlStart
    \/ LevelStart
    \/ CrawlSinglePage
    \/ CollectFuture
    \/ LevelEnd
    \/ LevelCrawlEnd

Spec == Init /\ [][Next]_vars

(***************************************************************************)
(* A session of Url_finder.py / url_finder2.py that keeps running          *)
(***************************************************************************)

\* The budgets of these sessions.
MaxSessionPages == 2

\* The analyzer of a finder variant right after __init__.
InitSession ==
    /\ variant \in { Finder, Finder2 }
    /\ max_pages \in 0..MaxSessionPages
    /\ max_depth = DefaultMaxDepth
    /\ pc = "initial_scan"
    /\ InitFields

\* The steps of such a session.
NextSession ==
    \/ InitialScan
    \/ SampleScan
    \/ ScanFailedReturn
    \/ UserDecision
    \/ show_initial_urls_only
    \/ find_subdomains_dns
    \/ ControlledCrawlStart
    \/ ControlledCrawlIteration
    \/ ControlledCrawlEnd

\* controlled_crawl is sequential code: while its loop condition holds the
\* next iteration runs to its end (get_page_content returns, with a page
\* or with None after the timeout), and once it fails the function returns.
SpecSession ==
    /\ InitSession
    /\ [][NextSession]_vars
    /\ WF_vars(ControlledCrawlIteration)
    /\ WF_vars(ControlledCrawlEnd)

(***************************************************************************)
(* Two sessions on one site that differ in the estimate only               *)
(***************************************************************************)

\* The fetches of controlled_crawl so far, in order.
CrawlLog == SelectSeq(fetch_log, LAMBDA e : e.phase = "crawl")

\* The fetches of the initial scan, in order.
ScanLog == SelectSeq(fetch_log, LAMBDA e : e.phase = "scan")

\* The estimates the second session may hold instead of the first one's:
\* nothing, the budget itself, and more than the budget (get_user_permission
\* compares the estimate with max_pages).
OtherEstimates == { 0, max_pages, max_pages + 1 } \ { estimated_total }

\* The site is the same in both sessions: a URL the first session fetched
\* answers the second session with the same page, that is with the same
\* outcome of get_page_content and the same links.
SameSite ==
    \A i \in 1..Len(CrawlLog), j \in 1..Len(first_session.order) :
        CrawlLog[i].url = first_session.order[j].url
            => /\ CrawlLog[i].ok = first_session.order[j].ok
               /\ page_links[i] = first_session.links[j]

\* The first session is about to call controlled_crawl: what it starts from
\* is kept for the second session.
FirstSessionStart ==
    /\ pc = "crawl_start"
    /\ first_session.phase = "none"
    /\ first_session' = [NoSession EXCEPT !.phase = "first", !.subdomains = found_subdomains]
    /\ pc' = pc
    /\ UNCHANGED << configVars, shownVars, probeVars, extractVars, scanVars, resultVars, visited_urls,
                    finderVars, recVars, scraperVars, historyVars >>

\* controlled_crawl is entered, in either session.
SessionCrawlStart ==
    /\ first_session.phase \in { "first", "second" }
    /\ ControlledCrawlStart

\* One iteration of controlled_crawl in the first session: the site answers
\* as it likes.
FirstSessionIteration ==
    /\ first_session.phase = "first"
    /\ ControlledCrawlIteration

\* One iteration of controlled_crawl in the second session: the site answers
\* as it did before.
SecondSessionIteration ==
    /\ first_session.phase = "second"
    /\ ControlledCrawlIteration
    /\ SameSite'

\* The first session is over.  The second one starts controlled_crawl from
\* the same fields, but for estimated_total.
SecondSessionStart ==
    /\ pc = "done"
    /\ first_session.phase = "first"
    /\ first_session' =
           [phase |-> "second", estimated_total |-> estimated_total,
            subdomains |-> first_session.subdomains, order |-> CrawlLog,
            links |-> page_links, visited |-> visited_urls,
            found |-> << found_subdomains, found_subdirectories, found_pages >>]
    /\ \E estimate \in OtherEstimates :
         estimated_total' = estimate
    /\ crawl_count' = 0
    /\ urls_to_crawl' = << >>
    /\ visited_urls' = {}
    /\ found_subdomains' = first_session.subdomains
    /\ found_subdirectories' = {}
    /\ found_pages' = {}
    /\ classified' = NotClassified
    /\ fetch_log' = ScanLog
    /\ last_links' = {}
    /\ inserted_batches' = << >>
    /\ page_links' = << >>
    /\ pc' = "crawl_start"
    /\ UNCHANGED << configVars, shownVars, probeVars, extractVars, initial_urls_found, main_page_links,
                    samples_left, total_additional_links, successful_samples, recVars,
                    scraperVars >>

\* The steps of the two sessions.
NextTwin ==
    \/ InitialScan
    \/ SampleScan
    \/ ScanFailedReturn
    \/ UserDecision
    \/ show_initial_urls_only
    \/ find_subdomains_dns
    \/ FirstSessionStart
    \/ SessionCrawlStart
    \/ FirstSessionIteration
    \/ SecondSessionIteration
    \/ ControlledCrawlEnd
    \/ SecondSessionStart

SpecTwin == InitSession /\ [][NextTwin]_vars

(***************************************************************************)
(* url_finder3.py on sites that answer every fetch, with budget to spare   *)
(***************************************************************************)

\* Every fetch so far gave a page.
EveryFetchSucceeded == \A i \in 1..Len(fetch_log) : fetch_log[i].ok

\* An analyzer of url_finder3.py whose budget no crawl of the site reaches.
InitDeep ==
    /\ variant = Finder3
    /\ max_pages = Cardinality(AllUrls) + 1
    /\ max_depth \in 0..MaxDepth
    /\ pc = "crawl_start"
    /\ InitFields

\* crawl_website() on the seed, which answers.
DeepCrawlStart == RecursiveCrawlStart /\ EveryFetchSucceeded'

\* One iteration of the link loop; the page, if one is fetched, answers.
DeepCrawlLoop == RecursiveCrawlLoop /\ EveryFetchSucceeded'

NextDeep ==
    \/ DeepCrawlStart
    \/ DeepCrawlLoop
    \/ RecursiveCrawlReturn
    \/ RecursiveCrawlEnd

SpecDeep == InitDeep /\ [][NextDeep]_vars

(***************************************************************************)
(* classify_url on its own                                                 *)
(***************************************************************************)

\* An analyzer right after __init__, about to classify URLs.
InitClassify ==
    /\ variant \in { Finder, Finder2, Finder3 }
    /\ max_pages = MaxPages
    /\ max_depth = DefaultMaxDepth
    /\ pc = "classify"
    /\ InitFields

\* One call classify_url(url).
ClassifyUrl ==
    /\ pc = "classify"
    /\ \E url \in ClassifyInputs : Classify(url)
    /\ UNCHANGED << configVars, twinVars, shownVars, probeVars, extractVars, pc, scanVars, visited_urls, finderVars, recVars,
                    scraperVars, historyVars >>

NextClassify == ClassifyUrl

SpecClassify == InitClassify /\ [][NextClassify]_vars

(***************************************************************************)
(* extract_links_from_page on its own                                      *)
(***************************************************************************)

\* An analyzer about to extract links, with nothing visited yet.
InitExtract ==
    /\ variant \in { Finder, Finder2, Finder3 }
    /\ max_pages = MaxPages
    /\ max_depth = DefaultMaxDepth
    /\ pc = "extract"
    /\ InitFields

\* One call extract_links_from_page(url, html_content).
ExtractLinks ==
    /\ pc = "extract"
    /\ \E url \in ExtractUrls, content \in ExtractContents :
         extracted' =
             [url |-> url, content |-> content,
              links |-> extract_links_from_page(variant, url, content, visited_urls)]
    /\ UNCHANGED << configVars, twinVars, shownVars, probeVars, pc, scanVars, resultVars, visited_urls,
                    finderVars, recVars, scraperVars, historyVars >>

NextExtract == ExtractLinks

SpecExtract == InitExtract /\ [][NextExtract]_vars

(***************************************************************************)
(* The estimate of the initial scan on its own                             *)
(***************************************************************************)

\* The numbers of links of the main page, and the most new links that the
\* samples bring.
MainLinkCounts == { 0, 3, 20, 32 }
MaxNewLinks == 13

\* An analyzer at the end of the sample loop of the initial scan.  The
\* links are numbered: 0 is the seed, 1..n are the n links of the main
\* page, the next ones are the new links that the sampled pages brought.
InitEstimate ==
    /\ variant \in { Finder, Finder2 }
    /\ max_pages = MaxPages
    /\ max_depth = DefaultMaxDepth
    /\ pc = "estimate"
    /\ \E n \in MainLinkCounts :
         \E successful \in 0..Min(SampleCap(variant), n) :
           \E total \in 0..(IF successful = 0 THEN 0 ELSE MaxNewLinks) :
             /\ main_page_links = 1..n
             /\ initial_urls_found = 0..(n + total)
             /\ total_additional_links = total
             /\ successful_samples = successful
    /\ samples_left = {}
    /\ estimated_total = 0
    /\ found_subdomains = {}
    /\ found_subdirectories = {}
    /\ found_pages = {}
    /\ visited_urls = {}
    /\ crawl_count = 0
    /\ urls_to_crawl = << >>
    /\ stack = << >>
    /\ depth = 0
    /\ current_level = {}
    /\ next_level = {}
    /\ futures = << >>
    /\ all_internal_links = {}
    /\ classified = NotClassified
    /\ probes = << >>
    /\ extracted = NotExtracted
    /\ fetch_log = << >>
    /\ last_links = {}
    /\ inserted_batches = << >>
    /\ page_links = << >>
    /\ first_session = NoSession
    /\ shown = NothingShown

\* The end of initial_scan / initial_scan_for_count: the estimate.
Estimate ==
    /\ pc = "estimate"
    /\ estimated_total' =
           EstimatedTotal(variant, initial_urls_found, total_additional_links,
                          successful_samples, Cardinality(main_page_links),
                          Min(SampleCap(variant), Cardinality(main_page_links)))
    /\ pc' = "scanned"
    /\ UNCHANGED << configVars, twinVars, shownVars, probeVars, extractVars, initial_urls_found, main_page_links,
                    samples_left, total_additional_links, successful_samples, resultVars,
                    visited_urls, finderVars, recVars, scraperVars, historyVars >>

NextEstimate == Estimate

SpecEstimate == InitEstimate /\ [][NextEstimate]_vars

(***************************************************************************)
(* The subdomain prober, thread by thread                                  *)
(***************************************************************************)

\* The candidate labels of the batch (a sample of common_subdomains).
ProbeCandidates == CommonSubdomains \cup { << "m" >> }

\* full_subdomain = f"{subdomain}.{self.base_domain}"
FullSubdomain(v, label) == label \o << "." >> \o BaseDomain(v)

\* dns.resolver.resolve(full_subdomain, 'A') returns or raises.
DnsOutcomes == { "resolved", "failed" }

\* self.session.head(test_url, timeout=5): a status below 400, a status of
\* 400 or more, or an exception (refused connection, timeout).
HeadOutcomes == { "ok", "refused", "error" }

\* The fault of taking every answer, and every exception, for a live host.
LiveAlways(outcome) == TRUE

\* response.status_code < 400, for a request that returned.
Live(outcome) == outcome = "ok"

\* A future just submitted: nothing looked up yet, no result.
Submitted0 ==
    [state |-> "submitted", dns |-> "none", https |-> "none", http |-> "none",
     result |-> << >>]

\* The fault of a failure that ends every future of the batch with None.
ReturnNoneAborts(ps, c) ==
    [k \in DOMAIN ps |-> [ps[k] EXCEPT !.state = "done", !.result = << >>]]

\* check_subdomain(c) ends with 'return None'.
ReturnNone(ps, c) == [ps EXCEPT ![c].state = "done", ![c].result = << >>]

\* check_subdomain(c) ends with 'return full_subdomain'.
ReturnFound(ps, c, host) == [ps EXCEPT ![c].state = "done", ![c].result = host]

\* An analyzer about to probe: url_scraper.py may have found subdomains
\* among the crawled links before.
InitProbe ==
    /\ variant \in Variants
    /\ max_pages = MaxPages
    /\ max_depth = DefaultMaxDepth
    /\ pc = "probe_start"
    /\ initial_urls_found = {}
    /\ estimated_total = 0
    /\ main_page_links = {}
    /\ samples_left = {}
    /\ total_additional_links = 0
    /\ successful_samples = 0
    /\ found_subdomains \in
           IF variant = Scraper
           THEN { {}, { FullSubdomain(Scraper, c) : c \in CommonSubdomains } }
           ELSE { {} }
    /\ found_subdirectories = {}
    /\ found_pages = {}
    /\ visited_urls = {}
    /\ crawl_count = 0
    /\ urls_to_crawl = << >>
    /\ stack = << >>
    /\ depth = 0
    /\ current_level = {}
    /\ next_level = {}
    /\ futures = << >>
    /\ all_internal_links = {}
    /\ classified = NotClassified
    /\ probes = << >>
    /\ extracted = NotExtracted
    /\ fetch_log = << >>
    /\ last_links = {}
    /\ inserted_batches = << >>
    /\ page_links = << >>
    /\ first_session = NoSession
    /\ shown = NothingShown

\* What no step of the prober changes.
probeFrame ==
    << configVars, twinVars, shownVars, extractVars, scanVars, found_subdirectories, found_pages,
       classified, visited_urls, finderVars, recVars, scraperVars, historyVars >>

\* executor.submit / executor.map: one future per candidate.
ProbeSubmit ==
    /\ pc = "probe_start"
    /\ probes' = [c \in ProbeCandidates |-> Submitted0]
    /\ pc' = "probing"
    /\ UNCHANGED << probeFrame, found_subdomains >>

\* A worker starts check_subdomain(c): url_scraper.py skips a host already
\* found; then the DNS lookup, whose failure ends the call.
ProbeDns ==
    /\ pc = "probing"
    /\ \E c \in DOMAIN probes :
         /\ probes[c].state = "submitted"
         /\ IF variant = Scraper /\ FullSubdomain(variant, c) \in found_subdomains
            THEN probes' = ReturnNone([probes EXCEPT ![c].dns = "skipped"], c)
            ELSE \E answer \in DnsOutcomes :
                   probes' = IF answer = "resolved"
                             THEN [probes EXCEPT ![c].dns = answer, ![c].state = "resolved"]
                             ELSE ReturnNone([probes EXCEPT ![c].dns = answer], c)
    /\ UNCHANGED << pc, probeFrame, found_subdomains >>

\* The first round of the protocol loop: the HEAD request over https.
ProbeHttps ==
    /\ pc = "probing"
    /\ \E c \in DOMAIN probes, answer \in HeadOutcomes :
         /\ probes[c].state = "resolved"
         /\ probes' = IF Live(answer)
                      THEN ReturnFound([probes EXCEPT ![c].https = answer], c,
                                       FullSubdomain(variant, c))
                      ELSE [probes EXCEPT ![c].https = answer, ![c].state = "https_tried"]
    /\ UNCHANGED << pc, probeFrame, found_subdomains >>

\* The second round of the protocol loop: the HEAD request over http.
ProbeHttp ==
    /\ pc = "probing"
    /\ \E c \in DOMAIN probes, answer \in HeadOutcomes :
         /\ probes[c].state = "https_tried"
         /\ probes' = IF Live(answer)
                      THEN ReturnFound([probes EXCEPT ![c].http = answer], c,
                                       FullSubdomain(variant, c))
                      ELSE ReturnNone([probes EXCEPT ![c].http = answer], c)
    /\ UNCHANGED << pc, probeFrame, found_subdomains >>

\* The fault of a main thread that also puts a found host among the URLs
\* to crawl.
ProbeCollectQueuesHost ==
    /\ pc = "probing"
    /\ variant = Scraper => \A k \in DOMAIN probes : probes[k].state \in { "done", "collected" }
    /\ \E c \in DOMAIN probes :
         /\ probes[c].state = "done"
         /\ found_subdomains' =
                IF probes[c].result # << >>
                THEN found_subdomains \cup { probes[c].result }
                ELSE found_subdomains
         /\ initial_urls_found' =
                IF probes[c].result # << >>
                THEN initial_urls_found \cup { HTTP \o << ":", "/", "/" >> \o probes[c].result }
                ELSE initial_urls_found
         /\ probes' = [probes EXCEPT ![c].state = "collected"]
    /\ UNCHANGED << pc, configVars, twinVars, shownVars, extractVars, estimated_total, main_page_links,
                    samples_left, total_additional_links, successful_samples,
                    found_subdirectories, found_pages, classified, visited_urls, finderVars,
                    recVars, scraperVars, historyVars >>

\* The main thread takes one result: as_completed yields a future as soon as
\* it is done; url_scraper.py reads the results after the executor has shut
\* down, that is after every call has ended.
ProbeCollect ==
    /\ pc = "probing"
    /\ variant = Scraper => \A k \in DOMAIN probes : probes[k].state \in { "done", "collected" }
    /\ \E c \in DOMAIN probes :
         /\ probes[c].state = "done"
         /\ found_subdomains' =
                IF probes[c].result # << >>
                THEN found_subdomains \cup { probes[c].result }
                ELSE found_subdomains
         /\ probes' = [probes EXCEPT ![c].state = "collected"]
    /\ UNCHANGED << pc, probeFrame >>

\* Every result is read: the prober returns.
ProbeEnd ==
    /\ pc = "probing"
    /\ \A c \in DOMAIN probes : probes[c].state = "collected"
    /\ pc' = "probe_done"
    /\ UNCHANGED << probeFrame, probeVars, found_subdomains >>

NextProbe ==
    \/ ProbeSubmit
    \/ ProbeDns
    \/ ProbeHttps
    \/ ProbeHttp
    \/ ProbeCollect
    \/ ProbeEnd

SpecProbe == InitProbe /\ [][NextProbe]_vars

(***************************************************************************)
(* The prober inside a session: find_subdomains_dns after the initial scan *)
(***************************************************************************)

\* find_subdomains_dns is entered, after the user let the analysis go on.
FindSubdomainsEnter ==
    /\ pc = "dns"
    /\ variant \in { Finder, Finder2 }
    /\ pc' = "probe_start"
    /\ UNCHANGED << probeFrame, probeVars, found_subdomains >>

\* The steps of a session up to the end of find_subdomains_dns.
NextScanProbe ==
    \/ InitialScan
    \/ SampleScan
    \/ ScanFailedReturn
    \/ UserDecision
    \/ show_initial_urls_only
    \/ FindSubdomainsEnter
    \/ ProbeSubmit
    \/ ProbeDns
    \/ ProbeHttps
    \/ ProbeHttp
    \/ ProbeCollect
    \/ ProbeEnd

SpecScanProbe == InitSession /\ [][NextScanProbe]_vars

(***************************************************************************)
(* Properties                                                              *)
(***************************************************************************)

\* TRUE iff no element occurs twice in the sequence.
NoDuplicates(seq) == \A i, j \in 1..Len(seq) : seq[i] = seq[j] => i = j

\* C1: in a session of Url_finder.py or url_finder2.py that goes from the
\* initial scan into controlled_crawl, the fetch attempts of the scan (seed
\* and samples) and of the crawl together never exceed max_pages, for
\* max_pages >= 1.
C1_SessionBudget ==
    (variant \in { Finder, Finder2 } /\ max_pages >= 1 /\ pc \in { "crawl", "done" })
        => Len(fetch_log) <= max_pages

\* C2: in crawl_website of url_scraper.py the number of pages fetched, which
\* is the number of URLs given to crawl_single_page and in the end the size
\* of visited_pages, never exceeds max_pages.
C2_LevelBudget ==
    variant = Scraper
        => /\ Len(PhaseLog("crawl")) <= max_pages
           /\ Cardinality(visited_urls) <= max_pages

\* C3: in the recursive crawl_website of url_finder3.py the size of
\* visited_urls equals the number of fetch attempts and never exceeds
\* max_pages, at any recursion depth.
C3_RecursiveBudget ==
    variant = Finder3
        => /\ Cardinality(visited_urls) = Len(PhaseLog("crawl"))
           /\ Cardinality(visited_urls) <= max_pages

\* C3 happens: the budget is used up inside a nested call while links are
\* still waiting in the loops of the callers.
C3_Witness ==
    /\ variant = Finder3
    /\ max_pages >= 2
    /\ Cardinality(visited_urls) = max_pages
    /\ Len(stack) >= 2
    /\ \E i \in 1..Len(stack) : stack[i].links \ visited_urls # {}

\* C4: with max_pages = 1 and max_depth >= 1 the crawl phase of every
\* variant never makes a second fetch attempt and has made exactly one when
\* it ends, however many links are known.
C4_SingleFetch ==
    (max_pages = 1 /\ max_depth >= 1)
        => /\ Len(PhaseLog("crawl")) <= 1
           /\ (pc = "done" => Len(PhaseLog("crawl")) = 1)

\* C4 happens: a session with max_pages = 1 has ended after one fetch while
\* two or more URLs are still pending in the queue.
C4_Witness ==
    /\ pc = "done"
    /\ max_pages = 1
    /\ max_depth >= 1
    /\ variant \in { Finder, Finder2 }
    /\ Len(urls_to_crawl) >= 2
    /\ Len(PhaseLog("crawl")) = 1

\* C5: within one run of controlled_crawl no URL is passed twice to
\* get_page_content by the crawl loop.
C5_FetchedOnce ==
    variant \in { Finder, Finder2 } => NoDuplicates(PhaseLog("crawl"))

\* C5 happens: the page crawled last links back to a URL crawled before it
\* and to a URL still pending, and the crawl goes on.
C5_Witness ==
    /\ variant \in { Finder, Finder2 }
    /\ pc = "crawl"
    /\ Len(PhaseLog("crawl")) >= 2
    /\ \E i \in 1..(Len(PhaseLog("crawl")) - 1) : PhaseLog("crawl")[i] \in last_links
    /\ last_links \cap Range(urls_to_crawl) # {}
    /\ CrawlGuard

\* C6: a URL fetched by the initial scan (the seed or a sample) is not
\* fetched again by the controlled_crawl of the same session.
C6_NoRefetchAfterScan ==
    variant \in { Finder, Finder2 }
        => Range(PhaseLog("scan")) \cap Range(PhaseLog("crawl")) = {}

\* C7: whenever controlled_crawl is about to pop a URL and fetch it, that
\* URL is lexicographically greater than or equal to every other URL of the
\* queue.
C7_LatestFirst ==
    (variant \in { Finder, Finder2 } /\ pc = "crawl" /\ CrawlGuard
        /\ Head(urls_to_crawl) \notin visited_urls)
        => \A i \in 2..Len(urls_to_crawl) :
               urls_to_crawl[i] = urls_to_crawl[1] \/ Less[urls_to_crawl[i], urls_to_crawl[1]]

\* The URLs that are discovered or pending, in every variant.
Frontier ==
    initial_urls_found \cup Range(urls_to_crawl) \cup current_level
        \cup UNION { stack[i].links : i \in 1..Len(stack) }

\* The scope as stated: the host is the seed's host or ends with '.' and
\* the registrable domain.
InScope(host) ==
    \/ host = UrlParse(SeedUrl).netloc
    \/ EndsWith(host, << "." >> \o LastTwoLabels(UrlParse(SeedUrl).netloc))

\* C8: every URL in the discovered set or the pending frontier has a host
\* that equals the seed host or ends with '.' + the registrable domain.
C8_ScopeFilter == \A url \in Frontier : InScope(UrlParse(url).netloc)

\* C9: if the fetch of the seed page fails in the initial scan, the scan
\* reports failure, no other fetch is made, neither the subdomain prober
\* nor controlled_crawl starts, and visited_urls stays empty to the end.
C9_SeedFailureStops ==
    (variant \in { Finder, Finder2 } /\ fetch_log # << >> /\ ~fetch_log[1].ok)
        => /\ pc \in { "scan_failed", "failed" }
           /\ Len(fetch_log) = 1
           /\ visited_urls = {}
           /\ found_subdomains = {}
           /\ initial_urls_found = {}
           /\ urls_to_crawl = << >>
           /\ crawl_count = 0

\* C9 happens: the session has ended after the one failed fetch of the seed.
C9_Witness ==
    /\ variant \in { Finder, Finder2 }
    /\ pc = "failed"
    /\ fetch_log = << [phase |-> "scan", url |-> SeedUrl, ok |-> FALSE] >>

\* The known document extensions as the specification lists them.
KnownExtensions ==
    { << ".", "h", "t", "m", "l" >>, << ".", "h", "t", "m" >>, << ".", "p", "h", "p" >>,
      << ".", "a", "s", "p" >>, << ".", "j", "s", "p" >>, << ".", "p", "y" >>,
      << ".", "p", "d", "f" >>, << ".", "d", "o", "c" >> }

\* The non-empty segments of the path of a URL.
Segments(url) == NonEmpty(Split(UrlParse(url).path, "/"))

\* C10: after classify_url(url) in Url_finder.py or url_finder2.py: if url
\* is on the seed host, has more than one path segment and its last segment
\* ends, in any case, with a known document extension, the label is 'page',
\* url is in found_pages and the join of the segments but the last is in
\* found_subdirectories; if url is on another host under the registrable
\* domain, the label is 'subdomain' and the host is in found_subdomains.
C10_Classification ==
    (variant \in { Finder, Finder2 } /\ classified # NotClassified)
        => LET url == classified.url
               host == UrlParse(url).netloc
               segs == Segments(url)
           IN  /\ (/\ host = UrlParse(SeedUrl).netloc
                   /\ Len(segs) > 1
                   /\ \E ext \in KnownExtensions : EndsWith(Lower(segs[Len(segs)]), ext))
                      => /\ classified.label = "page"
                         /\ url \in found_pages
                         /\ Join(SubSeq(segs, 1, Len(segs) - 1), "/") \in found_subdirectories
               /\ (/\ host # UrlParse(SeedUrl).netloc
                   /\ EndsWith(host, << "." >> \o LastTwoLabels(UrlParse(SeedUrl).netloc)))
                      => /\ classified.label = "subdomain"
                         /\ host \in found_subdomains

\* C11: classify_url gives every URL one of the three labels and records it
\* in the result set of that label: the host of a 'subdomain' is in
\* found_subdomains, a 'page' is in found_pages, the path of a
\* 'subdirectory' is in found_subdirectories; the site root is a 'page'.
C11_LabelRecorded ==
    (variant \in { Finder, Finder2, Finder3 } /\ classified # NotClassified)
        => LET url == classified.url
               label == classified.label
           IN  /\ label \in { "subdomain", "page", "subdirectory" }
               /\ label = "subdomain" => UrlParse(url).netloc \in found_subdomains
               /\ label = "page" => url \in found_pages
               /\ label = "subdirectory"
                      => LStrip(RStrip(UrlParse(url).path, "/"), "/") \in found_subdirectories
               /\ UrlParse(url).path = << >> => label \in { "page", "subdomain" }

\* A candidate's own lookups confirm it: DNS resolved and https, or after
\* it http, answered with a status below 400.
Confirmed(p) == p.dns = "resolved" /\ (p.https = "ok" \/ p.http = "ok")

\* C12: the prober adds label.base_domain to found_subdomains only if the
\* DNS lookup of that candidate succeeded and its check over https or, after
\* that failed, over http returned a status below 400; a future of a
\* candidate that resolved but is dead on both schemes holds no result.
C12_AddedOnlyIfConfirmed ==
    [][ /\ \A c \in DOMAIN probes' :
             FullSubdomain(variant, c) \in found_subdomains' \ found_subdomains
                 => Confirmed(probes[c])
        /\ \A c \in DOMAIN probes' :
             probes'[c].result # << >> => Confirmed(probes'[c])
      ]_vars

\* C12 happens: one candidate was added after https failed and http
\* answered, the other resolved, failed on both schemes and was left out.
C12_Witness ==
    /\ pc = "probe_done"
    /\ \E c, d \in DOMAIN probes :
         /\ probes[c].https \in { "refused", "error" }
         /\ probes[c].http = "ok"
         /\ FullSubdomain(variant, c) \in found_subdomains
         /\ probes[d].dns = "resolved"
         /\ probes[d].https = "error"
         /\ probes[d].http = "error"
         /\ FullSubdomain(variant, d) \notin found_subdomains

\* C13: when the prober returns, every candidate was probed and read, and
\* whether a candidate is in found_subdomains depends on its own lookups
\* only, whatever failed for the others and however the workers interleaved.
C13_FailuresIndependent ==
    pc = "probe_done"
        => \A c \in ProbeCandidates :
               /\ c \in DOMAIN probes
               /\ probes[c].state = "collected"
               /\ probes[c].dns # "none"
               /\ FullSubdomain(variant, c) \in found_subdomains
                      <=> (Confirmed(probes[c]) \/ probes[c].dns = "skipped")

\* C13 happens: the DNS lookup of one candidate failed, the HTTP checks of
\* another one confirmed it, and it is in found_subdomains.
C13_Witness ==
    /\ pc = "probe_done"
    /\ \E c, d \in DOMAIN probes :
         /\ probes[c].dns = "failed"
         /\ Confirmed(probes[d])
         /\ FullSubdomain(variant, d) \in found_subdomains

\* C14: in controlled_crawl the pending queue never holds a URL twice and
\* never holds a URL that is in visited_urls.
C14_QueueDistinctUnvisited ==
    variant \in { Finder, Finder2 }
        => /\ NoDuplicates(urls_to_crawl)
           /\ Range(urls_to_crawl) \cap visited_urls = {}

\* C14 happens: the page crawled last named a visited URL and a queued URL,
\* and the queue still holds two or more URLs.
C14_Witness ==
    /\ variant \in { Finder, Finder2 }
    /\ pc = "crawl"
    /\ Len(urls_to_crawl) >= 2
    /\ last_links \cap visited_urls # {}
    /\ last_links \cap Range(urls_to_crawl) # {}

\* The URL of the fetch attempt a step makes, if it makes one.
FetchedNow == { fetch_log'[i].url : i \in (Len(fetch_log) + 1)..Len(fetch_log') }

\* C15: in every variant no step removes a URL from the visited set, and a
\* URL that is visited is never taken up for fetching again: visited is the
\* last state of a URL.
C15_VisitedOneWay ==
    [][ /\ visited_urls \subseteq visited_urls'
        /\ FetchedNow \cap visited_urls = {}
      ]_vars

\* C15 happens: in the recursive crawl the page fetched last has offered a
\* URL that is visited already, the loop of that call is about to iterate
\* over it, and budget is left.
C15_Witness ==
    /\ variant = Finder3
    /\ pc = "crawl"
    /\ stack # << >>
    /\ stack[Len(stack)].url = fetch_log[Len(fetch_log)].url
    /\ stack[Len(stack)].links = last_links
    /\ last_links \cap visited_urls # {}
    /\ Cardinality(visited_urls) >= 2
    /\ BudgetLeft

FailedCrawlFetches ==
    { i \in 1..Len(fetch_log) : fetch_log[i].phase = "crawl" /\ ~fetch_log[i].ok }

\* C17: a fetch that fails during controlled_crawl leaves its URL in
\* visited_urls and counted in crawl_count, the URL is fetched at no other
\* time in that crawl, get_page_content returns (the session is in the loop
\* or has left it in the ordinary way), and while a URL is pending and
\* budget is left the loop can make its next iteration.
C17_FailedFetchCounted ==
    (variant \in { Finder, Finder2 } /\ FailedCrawlFetches # {})
        => /\ \A i \in FailedCrawlFetches :
                /\ fetch_log[i].url \in visited_urls
                /\ \A j \in 1..Len(fetch_log) :
                     (fetch_log[j].phase = "crawl" /\ fetch_log[j].url = fetch_log[i].url)
                         => j = i
           /\ crawl_count = Len(PhaseLog("crawl"))
           /\ pc \in { "crawl", "done" }
           /\ (pc = "crawl" /\ CrawlGuard) => ENABLED ControlledCrawlIteration

\* C17 happens: a fetch of the crawl failed and a later one gave a page
\* that links back to the URL of the failed one.
C17_Witness ==
    /\ variant \in { Finder, Finder2 }
    /\ \E i \in FailedCrawlFetches :
         /\ i < Len(fetch_log)
         /\ fetch_log[Len(fetch_log)].ok
         /\ fetch_log[i].url \in last_links

\* Two URL strings name one location: scheme, host and path are equal.
SameLocation(a, b) ==
    /\ UrlParse(a).scheme = UrlParse(b).scheme
    /\ UrlParse(a).netloc = UrlParse(b).netloc
    /\ UrlParse(a).path = UrlParse(b).path

\* C18: two different URL strings that name one location (they differ in
\* the query string or the fragment only) are never both in the discovered
\* set or the pending frontier and are never both fetched in one session.
C18_OneStringPerLocation ==
    /\ \A a, b \in Frontier : SameLocation(a, b) => a = b
    /\ \A i, j \in 1..Len(fetch_log) :
         SameLocation(fetch_log[i].url, fetch_log[j].url)
             => fetch_log[i].url = fetch_log[j].url

\* C19: extract_links_from_page(url, html) in Url_finder.py and
\* url_finder2.py never returns url itself, neither from an anchor or link
\* tag nor from a meta refresh tag.
C19_NoSelfLink ==
    (variant \in { Finder, Finder2 } /\ extracted # NotExtracted)
        => extracted.url \notin extracted.links

\* The URLs that the hrefs and the meta refresh target of a page resolve
\* to against the base URL.
ResolvedTargets(url, content) ==
    { UrlJoin(url, h) :
        h \in { g \in Range(content.hrefs) \cup
                        (IF content.meta = NoMeta THEN {} ELSE { content.meta }) :
                   ~UrlJoinRaises(url, g) } }

\* C20: a link of the page whose resolved URL has no scheme or no host
\* (mailto:, javascript:, tel:) is dropped by extract_links_from_page:
\* neither the resolved URL nor its clean form is returned.
C20_HostlessDropped ==
    (variant \in { Finder, Finder2 } /\ extracted # NotExtracted)
        => \A full_url \in ResolvedTargets(extracted.url, extracted.content) :
               (UrlParse(full_url).scheme = << >> \/ UrlParse(full_url).netloc = << >>)
                   => /\ full_url \notin extracted.links
                      /\ CleanUrl(full_url) \notin extracted.links

\* C21: when resolving a link raises inside extract_links_from_page, the
\* call returns the empty set: none of the links collected before the
\* exception is in the result.
C21_RaisedReturnsEmpty ==
    (/\ variant \in { Finder, Finder3 }
     /\ extracted # NotExtracted
     /\ ExtractRaises(variant, extracted.url, extracted.content))
        => extracted.links = {}

\* C29: on a page with an href that cannot be resolved, only that link
\* is dropped: every other link of the page that is in scope and is not the
\* page itself, before or after it in document order, is returned in its
\* clean form.
C29_OnlyBadLinkDropped ==
    (/\ variant \in { Finder, Finder2 }
     /\ extracted # NotExtracted
     /\ \E i \in 1..Len(extracted.content.hrefs) :
            UrlJoinRaises(extracted.url, extracted.content.hrefs[i]))
        => \A i \in 1..Len(extracted.content.hrefs) :
               LET href == extracted.content.hrefs[i]
               IN  (/\ href # << >>
                    /\ ~UrlJoinRaises(extracted.url, href)
                    /\ is_same_domain(variant, UrlJoin(extracted.url, href))
                    /\ CleanUrl(UrlJoin(extracted.url, href)) # extracted.url)
                       => CleanUrl(UrlJoin(extracted.url, href)) \in extracted.links

\* C22: the cleaning of extract_links_from_page is idempotent on the URLs
\* the hrefs of a page resolve to: a clean URL can be cleaned again, this
\* gives the same string, and a clean URL has neither a query string nor a
\* fragment.
C22_CleanIdempotent ==
    (extracted # NotExtracted)
        => \A full_url \in ResolvedTargets(extracted.url, extracted.content) :
               /\ ~UrlParseRaises(CleanUrl(full_url))
               /\ CleanUrl(CleanUrl(full_url)) = CleanUrl(full_url)
               /\ UrlParse(CleanUrl(full_url)).query = << >>
               /\ UrlParse(CleanUrl(full_url)).fragment = << >>
               /\ "?" \notin Range(CleanUrl(full_url))
               /\ "#" \notin Range(CleanUrl(full_url))

\* C23: after the initial scan, estimated_total is the number of URLs
\* discovered plus the floor of avg * (links of the main page - sample size)
\* * d, with avg = total new links / successful samples, the sample size
\* min(cap, links of the main page), and d = 1 in Url_finder.py, 7/10 in
\* url_finder2.py; it is the number discovered when no sample succeeded.
C23_EstimateFormula ==
    (pc = "scanned" /\ variant \in { Finder, Finder2 })
        => estimated_total =
               Cardinality(initial_urls_found)
                 + (IF successful_samples = 0 THEN 0
                    ELSE IF variant = Finder2
                    THEN (7 * total_additional_links
                            * (Cardinality(main_page_links)
                                 - Min(15, Cardinality(main_page_links))))
                           \div (10 * successful_samples)
                    ELSE (total_additional_links
                            * (Cardinality(main_page_links)
                                 - Min(5, Cardinality(main_page_links))))
                           \div successful_samples)

\* C24: when controlled_crawl has ended with the budget used up, every
\* visited URL is lexicographically greater than or equal to every URL
\* that was discovered in the session (by the initial scan, or extracted
\* during the crawl) and was left unvisited.
C24_OnlyLatestCrawled ==
    (variant \in { Finder, Finder2 } /\ pc = "done" /\ crawl_count >= max_pages)
        => \A v \in visited_urls :
               \A u \in (initial_urls_found \cup Range(urls_to_crawl)) \ visited_urls :
                   Less[u, v]

\* The position of a URL in the fetches of the crawl phase (0 when it was
\* not fetched there).
CrawlFetchIndex(url) ==
    IF \E i \in 1..Len(PhaseLog("crawl")) : PhaseLog("crawl")[i] = url
    THEN CHOOSE i \in 1..Len(PhaseLog("crawl")) : PhaseLog("crawl")[i] = url
    ELSE 0

\* C25: of two URLs that one extraction batch of controlled_crawl put into
\* the queue and that were both fetched later, the lexicographically
\* greater one was fetched before the lesser one.
C25_BatchLatestFirst ==
    variant \in { Finder, Finder2 }
        => \A k \in 1..Len(inserted_batches) :
               \A lesser, greater \in inserted_batches[k] :
                   (/\ Less[lesser, greater]
                    /\ CrawlFetchIndex(lesser) > 0
                    /\ CrawlFetchIndex(greater) > 0)
                       => CrawlFetchIndex(greater) < CrawlFetchIndex(lesser)

\* C26: while controlled_crawl runs and after it, crawl_count is at most
\* max_pages and equals the number of get_page_content calls of the loop;
\* an iteration that skips a popped URL as already visited leaves
\* crawl_count (and the number of fetches) as it is.
C26_CountIsFetches ==
    /\ [](variant \in { Finder, Finder2 } /\ pc \in { "crawl", "done" }
            => /\ crawl_count <= max_pages
               /\ crawl_count = Len(PhaseLog("crawl")))
    /\ [][(/\ variant \in { Finder, Finder2 }
           /\ pc = "crawl"
           /\ CrawlGuard
           /\ Head(urls_to_crawl) \in visited_urls)
              => (crawl_count' = crawl_count /\ fetch_log' = fetch_log)]_vars

\* The crawl ended with the budget used up by fetches of which one failed
\* and one gave a page.
C26_Witness ==
    /\ variant \in { Finder, Finder2 }
    /\ pc = "done"
    /\ max_pages >= 2
    /\ crawl_count = max_pages
    /\ Len(PhaseLog("crawl")) = max_pages
    /\ \E i, j \in 1..Len(fetch_log) :
         /\ fetch_log[i].phase = "crawl" /\ ~fetch_log[i].ok
         /\ fetch_log[j].phase = "crawl" /\ fetch_log[j].ok

\* C27: controlled_crawl terminates for every budget, whatever the pages
\* link to, when every fetch returns: once its loop is entered it is left
\* eventually, and every iteration of the loop is counted in crawl_count,
\* which stays at most max_pages, so there are at most max_pages iterations.
C27_CrawlTerminates ==
    /\ (variant \in { Finder, Finder2 } /\ pc = "crawl") ~> (pc = "done")
    /\ [][(variant \in { Finder, Finder2 } /\ pc = "crawl" /\ pc' = "crawl")
              => (crawl_count' = crawl_count + 1 /\ crawl_count' <= max_pages)]_vars

\* The crawl of a site with a cycle has ended by its budget: the last page
\* fetched links back to a visited URL, and URLs are still pending.
C27_Witness ==
    /\ variant \in { Finder, Finder2 }
    /\ pc = "done"
    /\ max_pages >= 2
    /\ crawl_count = max_pages
    /\ urls_to_crawl # << >>
    /\ last_links \cap visited_urls # {}

\* C28: in url_finder3.crawl_website every URL marked visited is also
\* classified, a URL whose fetch fails included: the URL marked last (the
\* one fetched last) is the one classify_url was called on last.
C28_VisitedClassified ==
    (variant = Finder3 /\ visited_urls # {})
        => /\ fetch_log # << >>
           /\ classified.url = fetch_log[Len(fetch_log)].url

\* C30: the estimate is advisory.  controlled_crawl never writes
\* estimated_total, and a second session that starts controlled_crawl from the
\* same fields on the same site with another estimate fetches the same URLs
\* in the same order, with the same outcomes, and ends with the same visited
\* set and the same classification as the first.
C30_EstimateAdvisory ==
    /\ [](first_session.phase = "second"
            => /\ Len(CrawlLog) <= Len(first_session.order)
               /\ \A i \in 1..Len(CrawlLog) : CrawlLog[i] = first_session.order[i]
               /\ pc = "done"
                    => /\ CrawlLog = first_session.order
                       /\ visited_urls = first_session.visited
                       /\ << found_subdomains, found_subdirectories, found_pages >>
                              = first_session.found)
    /\ [][(pc \in { "crawl_start", "crawl" }) => (estimated_total' = estimated_total)]_vars

\* Reached: a second session has ended after two fetches, one of which gave
\* fresh links, under an estimate that is not the first session's.
C30_Witness ==
    /\ first_session.phase = "second"
    /\ pc = "done"
    /\ estimated_total # first_session.estimated_total
    /\ Len(CrawlLog) = 2
    /\ inserted_batches # << >>
    /\ found_pages # {}

\* C31: in crawl_website of url_scraper.py a pool thread (the step that
\* fetches) leaves visited_pages, current_level and next_level alone; the
\* coordinating loop alone changes them, for one completed future at a time:
\* it adds that future's URL to visited_pages and its links to next_level,
\* and it replaces current_level only when every future has been collected.
C31_OnlyLoopMutatesFrontier ==
    [][(variant = Scraper /\ pc = "pool")
          => /\ (fetch_log' # fetch_log)
                   => /\ visited_urls' = visited_urls
                      /\ current_level' = current_level
                      /\ next_level' = next_level
             /\ (visited_urls' # visited_urls \/ next_level' # next_level)
                   => /\ current_level' = current_level
                      /\ \E url \in DOMAIN futures :
                           /\ futures[url].state = "done"
                           /\ futures' = [futures EXCEPT ![url].state = "collected"]
                           /\ visited_urls' = visited_urls \cup { url }
                           /\ next_level' = next_level \cup futures[url].links
             /\ (current_level' # current_level)
                   => /\ \A url \in DOMAIN futures : futures[url].state = "collected"
                      /\ visited_urls' = visited_urls
                      /\ next_level' = next_level]_vars

\* Reached: the pool of a level with several URLs, where one future has been
\* collected and another has completed without being collected yet; of the
\* two only the collected URL is visited.
C31_Witness ==
    /\ variant = Scraper
    /\ pc = "pool"
    /\ \E a, b \in DOMAIN futures :
         /\ futures[a].state = "collected"
         /\ futures[b].state = "done"
         /\ a \in visited_urls
         /\ b \notin visited_urls
    /\ next_level # {}

\* C32: find_subdomains_dns changes only found_subdomains.  From its entry to
\* its return, under every interleaving of the probe workers with the main
\* thread, no step changes visited_urls, the queue, the initial discovered
\* set, found_pages or found_subdirectories, and found_subdomains only grows.
C32_ProberFrame ==
    [][(pc \in { "probe_start", "probing" })
          => /\ visited_urls' = visited_urls
             /\ urls_to_crawl' = urls_to_crawl
             /\ initial_urls_found' = initial_urls_found
             /\ found_pages' = found_pages
             /\ found_subdirectories' = found_subdirectories
             /\ found_subdomains \subseteq found_subdomains']_vars

\* Reached: the prober has returned in a session whose scan discovered
\* URLs; one candidate was found live and another was not.
C32_Witness ==
    /\ pc = "probe_done"
    /\ variant \in { Finder, Finder2 }
    /\ Cardinality(initial_urls_found) >= 2
    /\ found_subdomains # {}
    /\ \E c \in DOMAIN probes : probes[c].result = << >>

\* C33: in url_finder3.crawl_website no URL is fetched at a depth greater
\* than max_depth.  The seed is crawled at depth 0 and a link of a page at
\* depth d at depth d + 1: a step that fetches is the call on the seed, or a
\* call made by the innermost active call (the last frame), one level deeper.
C33_FetchDepthBounded ==
    [][(variant = Finder3 /\ fetch_log' # fetch_log)
          => /\ (IF pc = "crawl_start" THEN 0 ELSE stack[Len(stack)].depth + 1) <= max_depth
             /\ \A k \in 1..Len(stack') : stack'[k].depth = k - 1 /\ k - 1 <= max_depth]_vars

\* Reached: a page was fetched at depth max_depth >= 1, and one of its links,
\* not visited and with budget left, was refused for being too deep.
C33_Witness ==
    /\ variant = Finder3
    /\ pc = "crawl"
    /\ max_depth >= 1
    /\ stack # << >>
    /\ stack[Len(stack)].depth = max_depth
    /\ fetch_log[Len(fetch_log)].url = stack[Len(stack)].url
    /\ Cardinality(visited_urls) < max_pages
    /\ \E link \in last_links \ stack[Len(stack)].links : link \notin visited_urls

\* The links the crawl got from a URL it fetched (none if it was not fetched).
LinksGot(url) ==
    UNION { page_links[i] : i \in { j \in 1..Len(CrawlLog) : CrawlLog[j].url = url } }

\* The URLs at link distance at most k from the seed, over the links got.
RECURSIVE WithinDistance(_)
WithinDistance(k) ==
    IF k = 0 THEN { SeedUrl }
    ELSE WithinDistance(k - 1) \cup UNION { LinksGot(u) : u \in WithinDistance(k - 1) }

\* C34: in url_finder3.crawl_website, when the crawl has ended with every
\* fetch answered and the page budget never reached, every URL at link
\* distance at most max_depth from the seed is visited.
C34_WithinDepthVisited ==
    (variant = Finder3 /\ pc = "done" /\ EveryFetchSucceeded
         /\ Cardinality(visited_urls) < max_pages)
        => WithinDistance(max_depth) \subseteq visited_urls

\* C35: in controlled_crawl the URL about to be popped is never in
\* visited_urls, so the 'already visited' branch is never taken, and
\* crawl_count equals the number of visited URLs in every state of the crawl.
C35_SkipNeverTaken ==
    variant \in { Finder, Finder2 }
        => /\ crawl_count = Cardinality(visited_urls)
           /\ (pc = "crawl" /\ CrawlGuard) => ~AlreadyVisited(Head(urls_to_crawl))

\* Reached: after two fetches the crawl goes on with two or more URLs in
\* the queue; the page crawled last named a URL that is visited and a URL
\* that is in the queue.
C35_Witness ==
    /\ variant \in { Finder, Finder2 }
    /\ pc = "crawl"
    /\ CrawlGuard
    /\ crawl_count = 2
    /\ Cardinality(visited_urls) = 2
    /\ last_links \cap visited_urls # {}
    /\ last_links \cap Range(urls_to_crawl) # {}
    /\ Len(urls_to_crawl) >= 2

\* The URLs reachable from a set by following the links the crawl got.
RECURSIVE ReachableFrom(_)
ReachableFrom(urls) ==
    IF UNION { LinksGot(u) : u \in urls } \subseteq urls THEN urls
    ELSE ReachableFrom(urls \cup UNION { LinksGot(u) : u \in urls })

\* C36: when controlled_crawl has ended after fewer than max_pages fetch
\* attempts, visited_urls is exactly the set of URLs reachable from the
\* initial discovered set through the links extract_links_from_page returned
\* for the pages fetched: no reachable URL is left unvisited.
C36_ExhaustiveBelowBudget ==
    (variant \in { Finder, Finder2 } /\ pc = "done" /\ crawl_count < max_pages)
        => visited_urls = ReachableFrom(initial_urls_found)

\* Reached: the crawl ended below its budget after following links to a URL
\* the initial scan had not discovered.
C36_Witness ==
    /\ variant \in { Finder, Finder2 }
    /\ pc = "done"
    /\ crawl_count < max_pages
    /\ crawl_count >= 2
    /\ inserted_batches # << >>
    /\ visited_urls \ initial_urls_found # {}

\* C37: in every state of controlled_crawl every URL that is visited or in
\* the queue is a member of the initial discovered set, or was returned by
\* extract_links_from_page for a URL that is visited and whose fetch gave a
\* page.
C37_EveryUrlHasOrigin ==
    (variant \in { Finder, Finder2 } /\ pc \in { "crawl", "done" })
        => \A url \in visited_urls \cup Range(urls_to_crawl) :
               \/ url \in initial_urls_found
               \/ \E i \in 1..Len(CrawlLog) :
                    /\ CrawlLog[i].ok
                    /\ CrawlLog[i].url \in visited_urls
                    /\ url \in page_links[i]

\* Reached: a URL the initial scan had not discovered is in the queue and
\* another is visited, while a fetch of the crawl has failed.
C37_Witness ==
    /\ variant \in { Finder, Finder2 }
    /\ pc = "crawl"
    /\ Range(urls_to_crawl) \ initial_urls_found # {}
    /\ visited_urls \ initial_urls_found # {}
    /\ \E i \in 1..Len(CrawlLog) : ~CrawlLog[i].ok

\* C38: in crawl_website of url_scraper.py the seed is level 0 and at most
\* max_depth levels are processed: a URL is fetched in a level below
\* max_depth and is within that many links of the seed, so every fetched
\* URL is at link distance at most max_depth - 1; no URL is submitted that
\* was fetched before, and none is fetched twice; when a level has ended
\* every URL fetched so far is in visited_pages, whatever its fetch gave;
\* with max_depth = 0 nothing is fetched.
C38_LevelsBounded ==
    variant = Scraper
        => /\ depth <= max_depth
           /\ max_depth = 0 => fetch_log = << >>
           /\ pc = "pool"
                => /\ depth < max_depth
                   /\ DOMAIN futures \subseteq WithinDistance(depth)
                   /\ \A url \in DOMAIN futures :
                        futures[url].state = "submitted" <=> url \notin Range(PhaseLog("crawl"))
           /\ max_depth > 0 => Range(PhaseLog("crawl")) \subseteq WithinDistance(max_depth - 1)
           /\ NoDuplicates(PhaseLog("crawl"))
           /\ pc \in { "level", "done" } => Range(PhaseLog("crawl")) \subseteq visited_urls

\* Reached: the crawl has ended after max_depth = 2 levels, with budget left
\* and with URLs of the third level waiting that are never fetched.
C38_Witness ==
    /\ variant = Scraper
    /\ pc = "done"
    /\ max_depth = 2
    /\ depth = max_depth
    /\ current_level # {}
    /\ Cardinality(visited_urls) < max_pages
    /\ Len(PhaseLog("crawl")) = 2

\* C39: in url_finder2.py the quick classification of show_initial_urls_only
\* puts every URL of the initial scan in the category classify_url returns
\* for it (a URL the quick classification puts nowhere is one for which
\* classify_url records nothing), and its three sets hold the entries
\* classify_url would record for these URLs.
C39_QuickSameAsClassify ==
    (variant = Finder2 /\ pc = "shown")
        => /\ \A url \in initial_urls_found :
                IF QuickClassOf[url].label = "none"
                THEN /\ ClassOf[Finder2, url].subdomains = {}
                     /\ ClassOf[Finder2, url].subdirectories = {}
                     /\ ClassOf[Finder2, url].pages = {}
                ELSE QuickClassOf[url].label = ClassOf[Finder2, url].label
           /\ shown.subdomains
                  = UNION { ClassOf[Finder2, url].subdomains : url \in initial_urls_found }
           /\ shown.subdirectories
                  = UNION { ClassOf[Finder2, url].subdirectories : url \in initial_urls_found }
           /\ shown.pages
                  = UNION { ClassOf[Finder2, url].pages : url \in initial_urls_found }

====
